---- MODULE Spec2Model ----
(***************************************************************************)
(* Conversation repository and streaming-response reconciliation of the    *)
(* chat application (App component, KnowledgeBaseManager, geminiService).  *)
(* React state is the program state; every event-loop task (a user event   *)
(* handler together with the effects of the render it causes, or one       *)
(* asynchronous completion) is one action.  Asynchronous continuations     *)
(* keep the closure values of the render in which they were started.       *)
(***************************************************************************)
EXTENDS Integers, Sequences, FiniteSets, TLC

\* ------------------------------------------------------------------ bounds
\* number of clock-reading user events in one behaviour
MaxTime == 3
\* text deltas delivered by one backend stream
MaxChunks == 2
\* suggestion fetches outstanding at the same time
MaxFetches == 2
\* clock-reading events followed by the specification of the chunk loop
MaxStreamTime == 2
\* clock-reading events followed by the specification of the attachments
MaxAttachTime == 2

\* --------------------------------------------------------- program constants
\* the range of the max-items slider
SliderMin == 1
SliderMax == 100
\* number of suggestions kept from a fetch
SuggestionCap == 4

\* ------------------------------------------------------------- input domains
\* values the slider is moved to
SliderChoices == {1, 2}
\* text typed into the URL box
UrlInputs == {"http://a", "http://b", "not a url", " "}
\* text typed into the conversation-name box (sequences of characters)
NameInputs == {<<" ">>, <<" ", "n">>}
\* text sent from the chat box
Queries == {<<" ">>, <<"q">>}
\* text saved from a message's edit box (already trimmed, non-empty)
EditTexts == {<<"e">>}
\* what a FileReader delivers for a file, after split(',')[1]: the base64
\* text of its content, "" for a file without content
ReadResults == {"d", ""}
\* text deltas of the backend stream
Deltas == {<<"H", "e", "l">>, <<"l", "o">>}
\* failure descriptions raised by the backend
ErrorMessages == {"quota"}
\* files offered to the knowledge-base file picker
FileChoices ==
  { [name |-> "f1", type |-> "text/plain"],
    [name |-> "f2", type |-> "application/pdf"],
    [name |-> "f3", type |-> "video/mp4"] }
FileLists ==
  { <<f>> : f \in FileChoices } \cup
  { <<f, g>> : f \in {[name |-> "f1", type |-> "text/plain"]},
               g \in {[name |-> "f2", type |-> "application/pdf"]} }
\* terminal metadata of a stream: an optional value is <<>> or <<value>>
CitationChoices == {<<>>, << <<[startIndex |-> 0, endIndex |-> 5, uri |-> "u"]>> >>}
UrlContextChoices == {<<>>, << <<[retrievedUrl |-> "http://a", urlRetrievalStatus |-> "OK"]>> >>}
\* JSON payloads of a suggestion fetch: "ok" carries a suggestions array,
\* "garbage" does not parse, "noarray" parses to an object whose suggestions
\* field is not an array, "empty" is an empty response text
SuggestionPayloads ==
  { [kind |-> "ok", suggestions |-> <<"s1", "s2", "s3", "s4", "s5">>],
    [kind |-> "ok", suggestions |-> <<"s1">>],
    [kind |-> "garbage", suggestions |-> <<>>],
    [kind |-> "noarray", suggestions |-> <<"s1">>],
    [kind |-> "empty", suggestions |-> <<>>] }

VARIABLES
  conversations,            \* Conversation[]
  activeConversationId,     \* id of the selected conversation
  maxContextItems,          \* limit on urls + files of a conversation
  isLoading,                \* a generation is in flight
  isFetchingSuggestions,    \* a suggestion fetch is in flight
  initialQuerySuggestions,  \* suggestion list
  apiKey,                   \* process.env.API_KEY is set
  now,                      \* last value read from Date.now()
  streams,                  \* _triggerModelResponse invocations awaiting the stream
  fetches,                  \* fetchAndSetInitialSuggestions invocations awaiting the reply
  reads,                    \* FileReader reads in progress
  backendCalls,             \* number of generateContentStream invocations
  inputAttachments,         \* ChatInterface: the attachments of the chat input
  attachmentReads,          \* ChatInterface: FileReader reads in progress
  lastOp                    \* the last handler or completion that ran

vars == <<conversations, activeConversationId, maxContextItems, isLoading,
          isFetchingSuggestions, initialQuerySuggestions, apiKey, now,
          streams, fetches, reads, backendCalls, inputAttachments,
          attachmentReads, lastOp>>

\* ------------------------------------------------------------------ helpers
NoId == <<"none", 0>>
NoText == <<>>

\* what ran last: the handler, whether it went past its guards, the id it was
\* given and a number describing its target (an index, a count or a length)
Op(op, ok, id, n) == [op |-> op, ok |-> ok, id |-> id, n |-> n]

\* String.prototype.trim on a sequence of characters
RECURSIVE TrimLeft(_)
TrimLeft(s) == IF s # <<>> /\ Head(s) = " " THEN TrimLeft(Tail(s)) ELSE s

RECURSIVE TrimRight(_)
TrimRight(s) ==
  IF s # <<>> /\ s[Len(s)] = " " THEN TrimRight(SubSeq(s, 1, Len(s) - 1)) ELSE s

Trim(s) == TrimRight(TrimLeft(s))

\* a faulty variant of Slice: nothing is cut off
SliceKeepsAll(s, n) == s
\* Array.prototype.slice(0, n)
Slice(s, n) == SubSeq(s, 1, IF Len(s) < n THEN Len(s) ELSE n)

\* the elements of an array
Elements(s) == {s[i] : i \in 1..Len(s)}

\* Array.prototype.filter; keep is the set of elements the callback accepts
Filter(s, keep) ==
  LET F[i \in 0..Len(s)] ==
        IF i = 0 THEN <<>>
        ELSE IF s[i] \in keep THEN Append(F[i - 1], s[i]) ELSE F[i - 1]
  IN F[Len(s)]

\* Array.prototype.findIndex, 1-based; 0 when nothing matches.  matching is
\* the set of elements the callback accepts
FindIndex(s, matching) ==
  IF \E i \in 1..Len(s) : s[i] \in matching
  THEN CHOOSE i \in 1..Len(s) :
         s[i] \in matching /\ \A j \in 1..(i - 1) : s[j] \notin matching
  ELSE 0

\* a faulty variant of Includes: the comparison is inverted
IncludesOther(s, x) == \E i \in 1..Len(s) : s[i] # x
\* Array.prototype.includes
Includes(s, x) == \E i \in 1..Len(s) : s[i] = x

\* new URL(urlString) succeeds
IsValidUrl(u) == u \in {"http://a", "http://b", "http://c"}

\* String.prototype.trim() of the URL box is empty
UrlIsBlank(u) == u \in {"", " "}

\* [...].sort((a, b) => b.lastUpdated - a.lastUpdated): stable, descending
RECURSIVE InsertByLastUpdated(_, _)
InsertByLastUpdated(sorted, c) ==
  IF sorted = <<>> THEN <<c>>
  ELSE IF Head(sorted).lastUpdated >= c.lastUpdated
       THEN <<Head(sorted)>> \o InsertByLastUpdated(Tail(sorted), c)
       ELSE <<c>> \o sorted

\* a faulty variant of SortByLastUpdated: the array is left in its order
SortKeepsOrder(s) == s
RECURSIVE SortByLastUpdated(_)
SortByLastUpdated(s) ==
  IF s = <<>> THEN <<>>
  ELSE InsertByLastUpdated(SortByLastUpdated(SubSeq(s, 1, Len(s) - 1)), s[Len(s)])

\* ------------------------------------------------------------ data builders
Message(id, sender, text, loading) ==
  [id |-> id, sender |-> sender, text |-> text, isLoading |-> loading,
   citations |-> <<>>, urlContext |-> <<>>, attachments |-> <<>>]

WelcomeMessage(convId) ==
  Message(<<"system-welcome", convId[2]>>, "system", <<"welcome">>, FALSE)

NewConversation(t, name) ==
  [id |-> <<"conv", t>>, name |-> name, urls |-> <<>>, files |-> <<>>,
   lastUpdated |-> t, messages |-> <<WelcomeMessage(<<"conv", t>>)>>]

\* ------------------------------------------------------------ derived state
HasConversation(convs, id) == \E i \in 1..Len(convs) : convs[i].id = id

\* what the ?. and || [] defaults read from an undefined conversation
NoConversation ==
  [id |-> NoId, name |-> <<>>, urls |-> <<>>, files |-> <<>>, lastUpdated |-> 0,
   messages |-> <<>>]

\* conversations.find(c => c.id === activeConversationId) || conversations[0]
ActiveConversationOf(convs, aid) ==
  IF HasConversation(convs, aid)
  THEN convs[FindIndex(convs, {c \in Elements(convs) : c.id = aid})]
  ELSE IF convs # <<>> THEN convs[1] ELSE NoConversation

activeConversation == ActiveConversationOf(conversations, activeConversationId)
chatMessages == activeConversation.messages
contextUrls == activeConversation.urls
\* a faulty variant of contextFiles: every listed file is a context file
contextFilesUnfiltered == activeConversation.files
contextFiles ==
  Filter(activeConversation.files,
         {f \in Elements(activeConversation.files) : f.status = "loaded"})

\* prev.map(c => (c.id === activeConversationId ? updater(c) : c)), with the
\* activeConversationId of the render that created the closure
\* updater is the callback as a function on the listed conversations
\* a faulty variant of updateActiveConversation: the conversation selected
\* now is updated, not the one of the closure
updateSelectedConversation(convs, aid, updater) ==
  [i \in 1..Len(convs) |->
     IF convs[i].id = activeConversationId THEN updater[convs[i]] ELSE convs[i]]
updateActiveConversation(convs, aid, updater) ==
  [i \in 1..Len(convs) |-> IF convs[i].id = aid THEN updater[convs[i]] ELSE convs[i]]

\* a faulty variant of ItemCount: files are not counted
ItemCountUrlsOnly(c) == Len(c.urls)
ItemCount(c) == Len(c.urls) + Len(c.files)

\* ---------------------------------------------------------------- initial
\* loadInitialState with empty storage: one default conversation, active
Init ==
  /\ conversations = <<NewConversation(0, <<"M">>)>>
  /\ activeConversationId = <<"conv", 0>>
  /\ maxContextItems \in SliderChoices
  /\ isLoading = FALSE
  /\ isFetchingSuggestions = FALSE
  /\ initialQuerySuggestions = <<>>
  /\ apiKey \in BOOLEAN
  /\ now = 0
  /\ streams = <<>>
  /\ fetches = <<>>
  /\ reads = {}
  /\ backendCalls = 0
  /\ inputAttachments = <<>>
  /\ attachmentReads = {}
  /\ lastOp = Op("init", TRUE, NoId, 0)

\* ------------------------------------------------------- suggestion fetcher
\* the URL-set effect: runs after a render in which contextUrls or
\* fetchAndSetInitialSuggestions (activeConversationId) changed
SuggestionEffect(convs, aid) ==
  LET urls == ActiveConversationOf(convs, aid).urls IN
  IF Len(urls) > 0 /\ apiKey
  THEN /\ Len(fetches) < MaxFetches
       /\ isFetchingSuggestions' = TRUE
       /\ initialQuerySuggestions' = <<>>
       /\ fetches' = Append(fetches, [conv |-> aid, urls |-> urls])
  ELSE /\ initialQuerySuggestions' = <<>>
       /\ UNCHANGED <<isFetchingSuggestions, fetches>>

NoSuggestionEffect ==
  UNCHANGED <<isFetchingSuggestions, initialQuerySuggestions, fetches>>

RemoveAt(s, i) == SubSeq(s, 1, i - 1) \o SubSeq(s, i + 1, Len(s))

\* a faulty variant of suggestionsArray: the suggestions field is taken as
\* it comes
suggestionsArrayUnchecked(payload) == payload.suggestions
\* the array read from the reply text: the suggestions field of the parsed
\* text when it parses and the field is an array, otherwise empty
suggestionsArray(payload) ==
  IF payload.kind = "ok" THEN payload.suggestions ELSE <<>>

\* the reply of getInitialSuggestions arrives
FetchReply(i, payload) ==
  /\ i \in 1..Len(fetches)
  /\ fetches' = RemoveAt(fetches, i)
  /\ initialQuerySuggestions' =
       IF payload.kind = "empty" THEN initialQuerySuggestions
       ELSE Slice(suggestionsArray(payload), SuggestionCap)
  /\ isFetchingSuggestions' = FALSE
  /\ lastOp' = Op("fetchReply", TRUE, <<payload.kind, Len(payload.suggestions)>>, i)
  /\ UNCHANGED <<conversations, activeConversationId, maxContextItems,
                 isLoading, apiKey, now, streams, reads, backendCalls>>
  /\ UNCHANGED <<inputAttachments, attachmentReads>>

\* getInitialSuggestions throws
FetchFailure(i, e) ==
  /\ i \in 1..Len(fetches)
  /\ now < MaxTime
  /\ fetches' = RemoveAt(fetches, i)
  /\ conversations' =
       updateActiveConversation(conversations, fetches[i].conv,
         [c \in Elements(conversations) |-> [c EXCEPT !.messages =
           Append(@, Message(<<"sys-err-suggestion-fetch", now + 1>>, "system",
                             <<"Error fetching suggestions: ", e>>, FALSE))]])
  /\ now' = now + 1
  /\ isFetchingSuggestions' = FALSE
  /\ lastOp' = Op("fetchFailure", TRUE, fetches[i].conv, i)
  /\ UNCHANGED <<activeConversationId, maxContextItems, isLoading,
                 initialQuerySuggestions, apiKey, streams, reads,
                 backendCalls>>
  /\ UNCHANGED <<inputAttachments, attachmentReads>>

\* ------------------------------------------------- conversation repository
handleNewConversation(input) ==
  /\ now < MaxTime
  /\ IF Trim(input) = <<>>
     THEN /\ lastOp' = Op("create", FALSE, NoId, Len(Trim(input)))
          /\ UNCHANGED <<conversations, activeConversationId, now>>
          /\ NoSuggestionEffect
     ELSE LET t == now + 1
              c == NewConversation(t, Trim(input))
              convs == SortByLastUpdated(Append(conversations, c))
          IN /\ conversations' = convs
             /\ activeConversationId' = c.id
             /\ now' = t
             /\ lastOp' = Op("create", TRUE, c.id, Len(Trim(input)))
             /\ SuggestionEffect(convs, c.id)
  /\ UNCHANGED <<maxContextItems, isLoading, apiKey, streams, reads, backendCalls>>
  /\ UNCHANGED <<inputAttachments, attachmentReads>>

\* a faulty variant of DeleteRefused: the last conversation is not protected
DeleteRefusedNever(convs) == Len(convs) <= 0
DeleteRefused(convs) == Len(convs) <= 1

\* a faulty variant of nextActiveIndexOf: the selection stays at the position
\* of the deleted conversation
nextActiveIndexSamePosition(activeIndex, newLength) == activeIndex
\* a faulty variant of nextActiveIndexOf: the first conversation is selected
nextActiveIndexFirst(activeIndex, newLength) == 1
\* handleDeleteConversation: the (1-based) position selected after the
\* conversation at activeIndex was removed, leaving newLength conversations
nextActiveIndexOf(activeIndex, newLength) ==
  LET prevIndex == IF activeIndex > 1 THEN activeIndex - 1 ELSE 1
  IN IF prevIndex > newLength THEN newLength ELSE prevIndex

handleDeleteConversation ==
  /\ IF DeleteRefused(conversations)
     THEN /\ lastOp' = Op("delete", FALSE, activeConversationId, 0)
          /\ UNCHANGED <<conversations, activeConversationId>>
          /\ NoSuggestionEffect
     ELSE LET activeIndex == FindIndex(conversations,
                                       {c \in Elements(conversations) : c.id = activeConversationId})
              newConversations == Filter(conversations,
                                         {c \in Elements(conversations) : c.id # activeConversationId})
              nextActiveIndex == nextActiveIndexOf(activeIndex, Len(newConversations))
              nextActiveId == IF nextActiveIndex \in 1..Len(newConversations)
                              THEN newConversations[nextActiveIndex].id
                              ELSE NoId
          IN /\ conversations' = newConversations
             /\ activeConversationId' = nextActiveId
             /\ lastOp' = Op("delete", TRUE, activeConversationId, activeIndex)
             /\ IF nextActiveId # activeConversationId
                THEN SuggestionEffect(newConversations, nextActiveId)
                ELSE NoSuggestionEffect
  /\ UNCHANGED <<maxContextItems, isLoading, apiKey, now, streams, reads,
                 backendCalls>>
  /\ UNCHANGED <<inputAttachments, attachmentReads>>

handleRenameConversation(input) ==
  /\ now < MaxTime
  /\ IF Trim(input) = <<>>
     THEN /\ lastOp' = Op("rename", FALSE, activeConversationId, 0)
          /\ UNCHANGED <<conversations, now>>
     ELSE /\ conversations' =
               updateActiveConversation(conversations, activeConversationId,
                 [c \in Elements(conversations) |-> [c EXCEPT !.name = Trim(input), !.lastUpdated = now + 1]])
          /\ now' = now + 1
          /\ lastOp' = Op("rename", TRUE, activeConversationId, 0)
  /\ NoSuggestionEffect
  /\ UNCHANGED <<activeConversationId, maxContextItems, isLoading, apiKey,
                 streams, reads, backendCalls>>
  /\ UNCHANGED <<inputAttachments, attachmentReads>>

\* the conversation <select>: its options are the existing conversations
setActiveConversationId(id) ==
  /\ HasConversation(conversations, id)
  /\ id # activeConversationId
  /\ activeConversationId' = id
  /\ lastOp' = Op("setActive", TRUE, id, 0)
  /\ SuggestionEffect(conversations, id)
  /\ UNCHANGED <<conversations, maxContextItems, isLoading, apiKey, now,
                 streams, reads, backendCalls>>
  /\ UNCHANGED <<inputAttachments, attachmentReads>>

\* the onSetConversationId prop: the state setter itself, which stores
\* whatever id it is called with
onSetConversationId(id) ==
  /\ id # activeConversationId
  /\ activeConversationId' = id
  /\ lastOp' = Op("onSetConversationId", TRUE, id, 0)
  /\ SuggestionEffect(conversations, id)
  /\ UNCHANGED <<conversations, maxContextItems, isLoading, apiKey, now,
                 streams, reads, backendCalls>>
  /\ UNCHANGED <<inputAttachments, attachmentReads>>

\* the persist effect: what localStorage holds after a render.  Files and
\* message attachments that are not loaded are left out, and isLoading is
\* dropped from the messages (read back as not loading)
Persisted(convs) ==
  [i \in 1..Len(convs) |->
     [convs[i] EXCEPT
        !.files = Filter(@, {f \in Elements(@) : f.status = "loaded"}),
        !.messages = [k \in 1..Len(@) |->
           [@[k] EXCEPT
              !.isLoading = FALSE,
              !.attachments = Filter(@, {a \in Elements(@) : a.status = "loaded"})]]]]

\* the persist effect: the stored activeConversationId
PersistedActiveId(convs, aid) ==
  IF aid # NoId THEN aid ELSE IF convs # <<>> THEN convs[1].id ELSE NoId

\* loadInitialState on a non-empty stored list
LoadedConversations(stored) ==
  SortByLastUpdated(
    [i \in 1..Len(stored) |->
       [stored[i] EXCEPT
          !.files = Filter(@, {f \in Elements(@) : f.status = "loaded" /\ f.data # ""}),
          !.messages = [k \in 1..Len(@) |->
             [@[k] EXCEPT
                !.attachments =
                   Filter(@, {a \in Elements(@) : a.status = "loaded" /\ a.data # ""})]]]])

\* loadInitialState: the saved id when a loaded conversation has it,
\* otherwise the first loaded conversation
LoadedActiveId(loaded, savedActiveId) ==
  IF savedActiveId # NoId /\ HasConversation(loaded, savedActiveId)
  THEN savedActiveId
  ELSE loaded[1].id

\* the page is loaded again: the App component is constructed from what the
\* persist effect stored; work in flight belongs to the old page and is gone
Reload ==
  /\ conversations # <<>>
  /\ LET loaded == LoadedConversations(Persisted(conversations))
         activeId == LoadedActiveId(loaded,
                       PersistedActiveId(conversations, activeConversationId))
         urls == ActiveConversationOf(loaded, activeId).urls
     IN /\ conversations' = loaded
        /\ activeConversationId' = activeId
        /\ initialQuerySuggestions' = <<>>
        /\ IF Len(urls) > 0 /\ apiKey
           THEN /\ isFetchingSuggestions' = TRUE
                /\ fetches' = <<[conv |-> activeId, urls |-> urls]>>
           ELSE /\ isFetchingSuggestions' = FALSE
                /\ fetches' = <<>>
        /\ lastOp' = Op("load", TRUE, activeId, Len(loaded))
  /\ isLoading' = FALSE
  /\ streams' = <<>>
  /\ reads' = {}
  /\ UNCHANGED <<maxContextItems, apiKey, now, backendCalls>>
  /\ inputAttachments' = <<>>
  /\ attachmentReads' = {}

\* loadInitialState.  savedData is what JSON.parse gave for the stored
\* conversations: <<list>> for a non-empty array, <<>> when the item is
\* absent, does not parse, is no array or is an empty array.  t is Date.now()
loadInitialState(savedData, savedActiveId, t) ==
  IF savedData = <<>>
  THEN [conversations |-> <<NewConversation(t, <<"M">>)>>, activeId |-> <<"conv", t>>]
  ELSE LET loaded == LoadedConversations(savedData[1])
       IN [conversations |-> loaded,
           activeId |-> LoadedActiveId(loaded, savedActiveId)]

\* the page is loaded with this content of the storage
ReloadFrom(savedData, savedActiveId) ==
  /\ now < MaxTime
  /\ LET state == loadInitialState(savedData, savedActiveId, now + 1)
         urls == ActiveConversationOf(state.conversations, state.activeId).urls
     IN /\ conversations' = state.conversations
        /\ activeConversationId' = state.activeId
        /\ initialQuerySuggestions' = <<>>
        /\ IF Len(urls) > 0 /\ apiKey
           THEN /\ isFetchingSuggestions' = TRUE
                /\ fetches' = <<[conv |-> state.activeId, urls |-> urls]>>
           ELSE /\ isFetchingSuggestions' = FALSE
                /\ fetches' = <<>>
        /\ lastOp' = Op("load", savedData # <<>>, savedActiveId, Len(state.conversations))
  /\ now' = now + 1
  /\ isLoading' = FALSE
  /\ streams' = <<>>
  /\ reads' = {}
  /\ UNCHANGED <<maxContextItems, apiKey, backendCalls>>
  /\ inputAttachments' = <<>>
  /\ attachmentReads' = {}

\* the max-items slider
setMaxContextItems(m) ==
  /\ m \in SliderMin..SliderMax
  /\ m # maxContextItems
  /\ maxContextItems' = m
  /\ lastOp' = Op("setMax", TRUE, NoId, m)
  /\ NoSuggestionEffect
  /\ UNCHANGED <<conversations, activeConversationId, isLoading, apiKey, now,
                 streams, reads, backendCalls>>
  /\ UNCHANGED <<inputAttachments, attachmentReads>>

\* --------------------------------------------------------- knowledge base
\* a faulty variant of AddUrlUpdater: the URL is put in front
AddUrlUpdaterPrepends(c, url, t) ==
  IF ItemCount(c) < maxContextItems /\ ~Includes(c.urls, url)
  THEN [c EXCEPT !.urls = <<url>> \o @, !.lastUpdated = t]
  ELSE c
\* App.handleAddUrl: the updater applied to the active conversation
AddUrlUpdater(c, url, t) ==
  IF ItemCount(c) < maxContextItems /\ ~Includes(c.urls, url)
  THEN [c EXCEPT !.urls = Append(@, url), !.lastUpdated = t]
  ELSE c

\* KnowledgeBaseManager.handleAddUrlClick: validation, then onAddUrl
AddUrlClickRejects(c, url) ==
  \/ UrlIsBlank(url)
  \/ ~IsValidUrl(url)
  \/ ItemCount(c) >= maxContextItems
  \/ Includes(c.urls, url)

handleAddUrlClick(url) ==
  /\ now < MaxTime
  /\ IF AddUrlClickRejects(activeConversation, url)
     THEN /\ lastOp' = Op("addUrl", FALSE, <<url, 0>>, 0)
          /\ UNCHANGED <<conversations, now>>
          /\ NoSuggestionEffect
     ELSE LET convs == updateActiveConversation(conversations, activeConversationId,
                         [c \in Elements(conversations) |-> AddUrlUpdater(c, url, now + 1)])
          IN /\ conversations' = convs
             /\ now' = now + 1
             /\ lastOp' = Op("addUrl", TRUE, <<url, 0>>, 0)
             /\ IF convs # conversations
                THEN SuggestionEffect(convs, activeConversationId)
                ELSE NoSuggestionEffect
  /\ UNCHANGED <<activeConversationId, maxContextItems, isLoading, apiKey,
                 streams, reads, backendCalls>>
  /\ UNCHANGED <<inputAttachments, attachmentReads>>

\* the remove button of a listed URL
handleRemoveUrl(urlToRemove) ==
  /\ now < MaxTime
  /\ Includes(contextUrls, urlToRemove)
  /\ LET convs == updateActiveConversation(conversations, activeConversationId,
                    [c \in Elements(conversations) |-> [c EXCEPT
                      !.urls = Filter(@, {u \in Elements(@) : u # urlToRemove}),
                      !.lastUpdated = now + 1]])
     IN /\ conversations' = convs
        /\ SuggestionEffect(convs, activeConversationId)
  /\ now' = now + 1
  /\ lastOp' = Op("removeUrl", TRUE, <<urlToRemove, 0>>, 0)
  /\ UNCHANGED <<activeConversationId, maxContextItems, isLoading, apiKey,
                 streams, reads, backendCalls>>
  /\ UNCHANGED <<inputAttachments, attachmentReads>>

SupportedTypes ==
  {"image/jpeg", "image/png", "image/webp", "text/plain", "text/markdown",
   "application/pdf",
   "application/vnd.openxmlformats-officedocument.wordprocessingml.document",
   "application/vnd.openxmlformats-officedocument.spreadsheetml.sheet"}

\* KnowledgeBaseManager.handleFilesSelected: the files handed to onAddFiles
FilesToProcess(c, selectedFiles) ==
  Filter(selectedFiles,
         {f \in Elements(selectedFiles) : /\ f.type \in SupportedTypes
                    /\ ~\E i \in 1..Len(c.files) : c.files[i].name = f.name})

FilesSelectedRejects(c, selectedFiles) ==
  ItemCount(c) + Len(selectedFiles) > maxContextItems

\* App.handleAddFiles: one loading placeholder per file
Placeholders(files, t) ==
  [i \in 1..Len(files) |->
     [id |-> <<"file", files[i].name, t>>, name |-> files[i].name,
      type |-> files[i].type, status |-> "loading", data |-> "",
      errorMessage |-> ""]]

handleFilesSelected(selectedFiles) ==
  /\ now < MaxTime
  /\ LET c == activeConversation
         files == FilesToProcess(c, selectedFiles)
         placeholders == Placeholders(files, now + 1)
     IN IF FilesSelectedRejects(c, selectedFiles) \/ files = <<>>
        THEN /\ lastOp' = Op("addFiles", FALSE, activeConversationId, 0)
             /\ UNCHANGED <<conversations, now, reads>>
        ELSE /\ conversations' =
                  updateActiveConversation(conversations, activeConversationId,
                    [k \in Elements(conversations) |-> [k EXCEPT !.files = @ \o placeholders]])
             /\ reads' = reads \cup
                  { [conv |-> activeConversationId, placeholder |-> placeholders[i],
                     file |-> i] :
                      i \in 1..Len(placeholders) }
             /\ now' = now + 1
             /\ lastOp' = Op("addFiles", TRUE, activeConversationId, Len(files))
  /\ NoSuggestionEffect
  /\ UNCHANGED <<activeConversationId, maxContextItems, isLoading, apiKey,
                 streams, backendCalls>>
  /\ UNCHANGED <<inputAttachments, attachmentReads>>

\* a faulty variant of handleUpdateFile: a file that is not in the list is
\* put at its end
handleUpdateOrAddFile(convs, conv, updatedFile) ==
  updateActiveConversation(convs, conv,
    [c \in Elements(convs) |-> [c EXCEPT
      !.files = IF \E i \in 1..Len(@) : @[i].id = updatedFile.id
                THEN [i \in 1..Len(@) |->
                        IF @[i].id = updatedFile.id THEN updatedFile ELSE @[i]]
                ELSE Append(@, updatedFile),
      !.lastUpdated = now]])
\* a faulty variant of handleUpdateFile: the id is not compared
handleUpdateEveryFile(convs, conv, updatedFile) ==
  updateActiveConversation(convs, conv,
    [c \in Elements(convs) |-> [c EXCEPT
      !.files = [i \in 1..Len(@) |-> updatedFile],
      !.lastUpdated = now]])
\* App.handleUpdateFile, called by reader.onload / reader.onerror with the
\* closure of the render in which the files were added
handleUpdateFile(convs, conv, updatedFile) ==
  updateActiveConversation(convs, conv,
    [c \in Elements(convs) |-> [c EXCEPT
      !.files = [i \in 1..Len(@) |->
                   IF @[i].id = updatedFile.id THEN updatedFile ELSE @[i]],
      !.lastUpdated = now]])

\* { ...placeholder, status: 'loaded', data: base64Data }
FileLoaded(placeholder, base64Data) ==
  [placeholder EXCEPT !.status = "loaded", !.data = base64Data]

\* { ...placeholder, status: 'error', errorMessage: 'Failed to read file.' }
FileFailed(placeholder) ==
  [placeholder EXCEPT !.status = "error", !.errorMessage = "Failed to read file."]

\* reader.onload of App.handleAddFiles; base64Data is the part of the data
\* URL after the comma, "" for a file without content
ReadLoaded(r, base64Data) ==
  /\ r \in reads
  /\ reads' = reads \ {r}
  /\ conversations' = handleUpdateFile(conversations, r.conv,
                                       FileLoaded(r.placeholder, base64Data))
  /\ lastOp' = Op("readLoaded", TRUE, r.conv, 0)
  /\ NoSuggestionEffect
  /\ UNCHANGED <<activeConversationId, maxContextItems, isLoading, apiKey, now,
                 streams, backendCalls>>
  /\ UNCHANGED <<inputAttachments, attachmentReads>>

ReadError(r) ==
  /\ r \in reads
  /\ reads' = reads \ {r}
  /\ conversations' = handleUpdateFile(conversations, r.conv,
                                       FileFailed(r.placeholder))
  /\ lastOp' = Op("readError", TRUE, r.conv, 0)
  /\ NoSuggestionEffect
  /\ UNCHANGED <<activeConversationId, maxContextItems, isLoading, apiKey, now,
                 streams, backendCalls>>
  /\ UNCHANGED <<inputAttachments, attachmentReads>>

\* the remove button of a listed file
handleRemoveFile(fileIdToRemove) ==
  /\ now < MaxTime
  /\ \E i \in 1..Len(activeConversation.files) :
        activeConversation.files[i].id = fileIdToRemove
  /\ conversations' =
       updateActiveConversation(conversations, activeConversationId,
         [c \in Elements(conversations) |-> [c EXCEPT
           !.files = Filter(@, {f \in Elements(@) : f.id # fileIdToRemove}),
           !.lastUpdated = now + 1]])
  /\ now' = now + 1
  /\ lastOp' = Op("removeFile", TRUE, activeConversationId, 0)
  /\ NoSuggestionEffect
  /\ UNCHANGED <<activeConversationId, maxContextItems, isLoading, apiKey,
                 streams, reads, backendCalls>>
  /\ UNCHANGED <<inputAttachments, attachmentReads>>

\* ---------------------------------------------- streaming response reconciler
ApiKeyErrorText ==
  <<"ERROR: API Key (process.env.API_KEY) is not configured.">>

\* a faulty variant of CredentialMissing: the credential is not looked at
CredentialMissingNever == FALSE
\* !apiKey, with apiKey = process.env.API_KEY
CredentialMissing == ~apiKey

\* a faulty variant of TriggerRefused: the reconciler returns at its guard
TriggerRefusedAlways == TRUE
\* a faulty variant of TriggerRefused: the generation flag is not read
TriggerRefusedWhileFetching == isFetchingSuggestions
\* the guard of _triggerModelResponse
TriggerRefused == isLoading \/ isFetchingSuggestions

\* _triggerModelResponse up to its first await.  convs is the conversation
\* list after the caller's own update, t the value of Date.now()
TriggerModelResponse(convs, historyForApi, t) ==
  IF TriggerRefused
  THEN /\ conversations' = convs
       /\ UNCHANGED <<isLoading, initialQuerySuggestions, streams, backendCalls>>
  ELSE IF CredentialMissing
  THEN /\ conversations' =
            updateActiveConversation(convs, activeConversationId,
              [c \in Elements(convs) |-> [c EXCEPT !.messages =
                Append(@, Message(<<"error-apikey", t>>, "system",
                                  ApiKeyErrorText, FALSE))]])
       /\ UNCHANGED <<isLoading, initialQuerySuggestions, streams, backendCalls>>
  ELSE LET modelPlaceholderMessage ==
             Message(<<"model-response", t>>, "model", NoText, TRUE)
       IN /\ isLoading' = TRUE
          /\ initialQuerySuggestions' = <<>>
          /\ conversations' =
               updateActiveConversation(convs, activeConversationId,
                 [c \in Elements(convs) |-> [c EXCEPT
                   !.messages = Append(@, modelPlaceholderMessage),
                   !.lastUpdated = t]])
          /\ streams' = Append(streams,
               [conv |-> activeConversationId,
                placeholder |-> modelPlaceholderMessage,
                history |-> historyForApi,
                urls |-> contextUrls,
                files |-> contextFiles,
                fullText |-> NoText,
                received |-> <<>>])
          /\ backendCalls' = backendCalls + 1

\* generateContentStreamWithUrlContext: the files and attachments put into
\* the request of stream s.  Every context file it is given, and of the
\* history messages that are neither system nor loading the attachments
\* that are loaded
RequestFiles(s) == Elements(s.files)
RequestAttachments(s) ==
  UNION { {a \in Elements(s.history[k].attachments) : a.status = "loaded"} :
            k \in {j \in 1..Len(s.history) :
                     s.history[j].sender # "system" /\ ~s.history[j].isLoading} }

\* a faulty variant of MapMessage: the last message is changed, whatever
\* its id
MapLastMessage(c, id, change) ==
  [c EXCEPT !.messages =
     [i \in 1..Len(@) |-> IF i = Len(@) THEN change[@[i]] ELSE @[i]]]
\* messages.map(msg => msg.id === id ? change(msg) : msg)
\* change is the callback as a function on the messages of c
MapMessage(c, id, change) ==
  [c EXCEPT !.messages =
     [i \in 1..Len(@) |-> IF @[i].id = id THEN change[@[i]] ELSE @[i]]]

\* a faulty variant of ChunkText: the delta replaces the buffer
ChunkTextDeltaOnly(fullText, delta) == delta
\* the text written to the placeholder when a delta arrives
ChunkText(fullText, delta) == fullText \o delta

\* one iteration of the chunk loop: a chunk with a text delta
StreamChunk(i, delta) ==
  /\ i \in 1..Len(streams)
  /\ Len(streams[i].received) < MaxChunks
  /\ LET s == streams[i]
         fullText == ChunkText(s.fullText, delta)
     IN /\ streams' = [streams EXCEPT ![i].fullText = fullText,
                                      ![i].received = Append(@, delta)]
        /\ conversations' =
             updateActiveConversation(conversations, s.conv,
               [c \in Elements(conversations) |-> MapMessage(c, s.placeholder.id,
                            [msg \in Elements(c.messages) |-> [msg EXCEPT !.text = fullText]])])
        /\ lastOp' = Op("chunk", TRUE, s.placeholder.id, i)
  /\ UNCHANGED <<activeConversationId, maxContextItems, isLoading,
                 isFetchingSuggestions, initialQuerySuggestions, apiKey, now,
                 fetches, reads, backendCalls>>
  /\ UNCHANGED <<inputAttachments, attachmentReads>>

\* a faulty variant of finallyIsLoading: the flag is left as it was
finallyIsLoadingKept == isLoading
\* finally { setIsLoading(false) }: the flag after a stream has ended
finallyIsLoading == FALSE

\* a faulty variant of Finalize: the metadata is not written
FinalizeTextOnly(msg, fullText, citations, urlContext) ==
  [msg EXCEPT !.text = fullText, !.isLoading = FALSE]
\* a faulty variant of Finalize: isLoading is left as it was
FinalizeKeepsLoading(msg, fullText, citations, urlContext) ==
  [msg EXCEPT !.text = fullText, !.citations = citations,
              !.urlContext = urlContext]
\* the final update of the placeholder
Finalize(msg, fullText, citations, urlContext) ==
  [msg EXCEPT !.text = fullText, !.isLoading = FALSE,
              !.citations = citations, !.urlContext = urlContext]

\* if (chunk.citations) finalCitations = chunk.citations, and the same for
\* urlContextMetadata: the local keeps its value when the chunk has none
LastSeen(local, delivered) == IF delivered # <<>> THEN delivered ELSE local

\* the metadata chunk (when the backend sent one) and stream exhaustion:
\* the final update and the finally block.  The locals finalCitations and
\* finalUrlContext are undefined until the metadata chunk, which the backend
\* wrapper yields once, after the last text chunk
StreamEnd(i, citations, urlContext) ==
  /\ i \in 1..Len(streams)
  /\ LET s == streams[i]
     IN /\ conversations' =
             updateActiveConversation(conversations, s.conv,
               [c \in Elements(conversations) |-> MapMessage(c, s.placeholder.id,
                            [msg \in Elements(c.messages) |-> Finalize(msg, s.fullText,
                                                  LastSeen(<<>>, citations),
                                                  LastSeen(<<>>, urlContext))])])
        /\ lastOp' = Op("streamEnd", TRUE, s.placeholder.id, i)
                        @@ [delivered |-> <<citations, urlContext>>]
  /\ streams' = RemoveAt(streams, i)
  /\ isLoading' = finallyIsLoading
  /\ UNCHANGED <<activeConversationId, maxContextItems, isFetchingSuggestions,
                 initialQuerySuggestions, apiKey, now, fetches, reads,
                 backendCalls>>
  /\ UNCHANGED <<inputAttachments, attachmentReads>>

\* a faulty variant of ErrorMessageFor: the sender is left as it was
ErrorMessageAsModel(placeholder, e) ==
  [placeholder EXCEPT !.text = <<"Error: ", e>>, !.isLoading = FALSE]
\* a faulty variant of ErrorMessageFor: isLoading is left as it was
ErrorMessageStillLoading(placeholder, e) ==
  [placeholder EXCEPT !.text = <<"Error: ", e>>, !.sender = "system"]
\* the message put in the placeholder's place by the catch block
ErrorMessageFor(placeholder, e) ==
  [placeholder EXCEPT !.text = <<"Error: ", e>>, !.sender = "system",
                      !.isLoading = FALSE]

\* the backend call or the stream throws: the catch and finally blocks
StreamError(i, e) ==
  /\ i \in 1..Len(streams)
  /\ LET s == streams[i]
     IN /\ conversations' =
             updateActiveConversation(conversations, s.conv,
               [c \in Elements(conversations) |-> MapMessage(c, s.placeholder.id,
                            [msg \in Elements(c.messages) |-> ErrorMessageFor(s.placeholder, e)])])
        /\ lastOp' = Op("streamError", TRUE, s.placeholder.id, i)
  /\ streams' = RemoveAt(streams, i)
  /\ isLoading' = finallyIsLoading
  /\ UNCHANGED <<activeConversationId, maxContextItems, isFetchingSuggestions,
                 initialQuerySuggestions, apiKey, now, fetches, reads,
                 backendCalls>>
  /\ UNCHANGED <<inputAttachments, attachmentReads>>

\* a faulty variant of SendRefused: the in-flight flags are not read
SendRefusedEmptyOnly(query, attachments) ==
  Trim(query) = <<>> /\ attachments = <<>>
\* the guard of handleSendMessage
SendRefused(query, attachments) ==
  \/ (Trim(query) = <<>> /\ attachments = <<>>)
  \/ isLoading
  \/ isFetchingSuggestions

\* App.handleSendMessage as the chat input calls it (the onSendMessage prop):
\* its effect on the state of App
onSendMessage(query, attachments) ==
  /\ now < MaxTime
  /\ IF SendRefused(query, attachments)
     THEN /\ lastOp' = Op("send", FALSE, NoId, Len(Trim(query)))
          /\ UNCHANGED <<conversations, isLoading, initialQuerySuggestions,
                         streams, backendCalls, now>>
     ELSE LET t == now + 1
              userMessage ==
                [Message(<<"user", t>>, "user", query, FALSE) EXCEPT
                   !.attachments = Filter(attachments, {a \in Elements(attachments) : a.status = "loaded"})]
              newHistory == Append(chatMessages, userMessage)
              convs == updateActiveConversation(conversations, activeConversationId,
                         [c \in Elements(conversations) |-> [c EXCEPT !.messages = newHistory]])
          IN /\ TriggerModelResponse(convs, newHistory, t)
             /\ now' = t
             /\ lastOp' = Op("send", TRUE, userMessage.id, Len(newHistory))
  /\ UNCHANGED <<activeConversationId, maxContextItems, isFetchingSuggestions,
                 apiKey, fetches, reads>>

\* a message sent with the chat input left as it is
handleSendMessage(query, attachments) ==
  /\ onSendMessage(query, attachments)
  /\ UNCHANGED <<inputAttachments, attachmentReads>>

\* --------------------------------------------- chat input attachments
\* ChatInterface.handleFiles: one loading placeholder per file
AttachmentPlaceholders(files, t) ==
  [i \in 1..Len(files) |->
     [id |-> <<"att", files[i].name, t>>, name |-> files[i].name,
      type |-> files[i].type, status |-> "loading", data |-> "",
      errorMessage |-> ""]]

\* prev.map(att => att.id === id ? {...att, status: 'loaded', data} : att)
AttachmentLoaded(atts, id, base64Data) ==
  [i \in 1..Len(atts) |->
     IF atts[i].id = id
     THEN [atts[i] EXCEPT !.status = "loaded", !.data = base64Data]
     ELSE atts[i]]

\* prev.map(att => att.id === id ? {...att, status: 'error', errorMessage} : att)
AttachmentFailed(atts, id, errorMessage) ==
  [i \in 1..Len(atts) |->
     IF atts[i].id = id
     THEN [atts[i] EXCEPT !.status = "error", !.errorMessage = errorMessage]
     ELSE atts[i]]

\* ChatInterface.handleFiles: placeholders are appended, those of an
\* unsupported type are marked at once, the others are read
handleFiles(files) ==
  /\ now < MaxTime
  /\ LET newPlaceholders == AttachmentPlaceholders(files, now + 1)
         appended == inputAttachments \o newPlaceholders
         unsupported == {newPlaceholders[k].id :
                           k \in {j \in 1..Len(files) : files[j].type \notin SupportedTypes}}
     IN /\ inputAttachments' =
             [i \in 1..Len(appended) |->
                IF appended[i].id \in unsupported
                THEN [appended[i] EXCEPT !.status = "error",
                                         !.errorMessage = "Unsupported file type"]
                ELSE appended[i]]
        /\ attachmentReads' = attachmentReads \cup
             {[placeholder |-> newPlaceholders[k], file |-> k] :
                k \in {j \in 1..Len(files) : files[j].type \in SupportedTypes}}
        /\ lastOp' = Op("handleFiles", TRUE, NoId, Len(files))
  /\ now' = now + 1
  /\ UNCHANGED <<conversations, activeConversationId, maxContextItems,
                 isLoading, isFetchingSuggestions, initialQuerySuggestions,
                 apiKey, streams, fetches, reads, backendCalls>>

\* the body of reader.onload in ChatInterface.handleFiles
AttachmentOnLoad(atts, id, base64Data) ==
  IF base64Data # ""
  THEN AttachmentLoaded(atts, id, base64Data)
  ELSE AttachmentFailed(atts, id, "Failed to read file")

\* reader.onload of ChatInterface.handleFiles
AttachmentReadLoaded(r, base64Data) ==
  /\ r \in attachmentReads
  /\ attachmentReads' = attachmentReads \ {r}
  /\ inputAttachments' =
       AttachmentOnLoad(inputAttachments, r.placeholder.id, base64Data)
  /\ lastOp' = Op("attachmentLoaded", base64Data # "", r.placeholder.id, 0)
  /\ UNCHANGED <<conversations, activeConversationId, maxContextItems,
                 isLoading, isFetchingSuggestions, initialQuerySuggestions,
                 apiKey, now, streams, fetches, reads, backendCalls>>

\* reader.onerror of ChatInterface.handleFiles
AttachmentReadError(r) ==
  /\ r \in attachmentReads
  /\ attachmentReads' = attachmentReads \ {r}
  /\ inputAttachments' =
       AttachmentFailed(inputAttachments, r.placeholder.id, "Failed to read file")
  /\ lastOp' = Op("attachmentError", TRUE, r.placeholder.id, 0)
  /\ UNCHANGED <<conversations, activeConversationId, maxContextItems,
                 isLoading, isFetchingSuggestions, initialQuerySuggestions,
                 apiKey, now, streams, fetches, reads, backendCalls>>

\* the remove button of an attachment chip
removeAttachment(idToRemove) ==
  /\ \E i \in 1..Len(inputAttachments) : inputAttachments[i].id = idToRemove
  /\ inputAttachments' =
       Filter(inputAttachments,
              {att \in Elements(inputAttachments) : att.id # idToRemove})
  /\ lastOp' = Op("removeAttachment", TRUE, idToRemove, 0)
  /\ UNCHANGED <<conversations, activeConversationId, maxContextItems,
                 isLoading, isFetchingSuggestions, initialQuerySuggestions,
                 apiKey, now, streams, fetches, reads, backendCalls,
                 attachmentReads>>

\* CameraView.handleCapture and ChatInterface.handleCapture: a captured
\* picture is appended as a loaded attachment
handleCapture ==
  /\ now < MaxTime
  /\ inputAttachments' =
       Append(inputAttachments,
              [id |-> <<"capture", "capture.jpg", now + 1>>, name |-> "capture.jpg",
               type |-> "image/jpeg", status |-> "loaded", data |-> "d",
               errorMessage |-> ""])
  /\ now' = now + 1
  /\ lastOp' = Op("capture", TRUE, <<"capture", "capture.jpg", now + 1>>, 0)
  /\ UNCHANGED <<conversations, activeConversationId, maxContextItems,
                 isLoading, isFetchingSuggestions, initialQuerySuggestions,
                 apiKey, streams, fetches, reads, backendCalls,
                 attachmentReads>>

\* a faulty variant of loadedAttachmentsOf: every attachment is kept
allAttachmentsOf(atts) == atts
\* attachments.filter(a => a.status === 'loaded')
loadedAttachmentsOf(atts) ==
  Filter(atts, {a \in Elements(atts) : a.status = "loaded"})

\* attachments.some(a => a.status === 'loading')
areAttachmentsLoading ==
  \E i \in 1..Len(inputAttachments) : inputAttachments[i].status = "loading"

\* ChatInterface.handleSend, reached through the send button or the Enter
\* key, which are disabled while something is in flight or being read
handleSend(userQuery) ==
  /\ ~(isLoading \/ isFetchingSuggestions \/ areAttachmentsLoading)
  /\ LET loadedAttachments == loadedAttachmentsOf(inputAttachments)
     IN IF (Trim(userQuery) # <<>> \/ Len(loadedAttachments) > 0) /\ ~isLoading
        THEN /\ onSendMessage(Trim(userQuery), loadedAttachments)
             /\ inputAttachments' = <<>>
        ELSE /\ lastOp' = Op("handleSend", FALSE, NoId, Len(Trim(userQuery)))
             /\ UNCHANGED <<conversations, activeConversationId, maxContextItems,
                            isLoading, isFetchingSuggestions,
                            initialQuerySuggestions, apiKey, now, streams,
                            fetches, reads, backendCalls, inputAttachments>>
  /\ UNCHANGED attachmentReads

\* recognition.onend: dictation ends and what the chat input holds is sent;
\* the microphone stays usable while attachments are being read
recognitionOnEnd(userQuery) ==
  /\ LET finalQuery == Trim(userQuery)
         finalAttachments == loadedAttachmentsOf(inputAttachments)
     IN IF finalQuery # <<>> \/ Len(finalAttachments) > 0
        THEN onSendMessage(finalQuery, finalAttachments)
        ELSE /\ lastOp' = Op("recognitionEnd", FALSE, NoId, 0)
             /\ UNCHANGED <<conversations, activeConversationId, maxContextItems,
                            isLoading, isFetchingSuggestions,
                            initialQuerySuggestions, apiKey, now, streams,
                            fetches, reads, backendCalls>>
  /\ inputAttachments' = <<>>
  /\ UNCHANGED attachmentReads

\* ------------------------------------------------ history replay controller
MessageIndex(messages, messageId) ==
  FindIndex(messages, {m \in Elements(messages) : m.id = messageId})

\* a faulty variant of truncatedHistory: the slice keeps the target
truncatedHistoryThrough(messages, messageIndex) ==
  SubSeq(messages, 1, messageIndex)
\* chatMessages.slice(0, messageIndex) in handleEditMessage; messageIndex is
\* counted from 1 here
truncatedHistory(messages, messageIndex) ==
  SubSeq(messages, 1, messageIndex - 1)

\* a faulty variant of historyBeforeTarget: the slice keeps the target
historyThroughTarget(messages, messageIndex) ==
  SubSeq(messages, 1, messageIndex)
\* chatMessages.slice(0, messageIndex) in handleRegenerateResponse
historyBeforeTarget(messages, messageIndex) ==
  SubSeq(messages, 1, messageIndex - 1)

handleEditMessage(messageId, newText) ==
  /\ now < MaxTime
  /\ LET messageIndex == MessageIndex(chatMessages, messageId)
     IN IF messageIndex = 0 \/ chatMessages[messageIndex].sender # "user"
        THEN /\ lastOp' = Op("edit", FALSE, messageId, messageIndex)
             /\ UNCHANGED <<conversations, isLoading, initialQuerySuggestions,
                            streams, backendCalls, now>>
        ELSE LET t == now + 1
                 editedMessage == [chatMessages[messageIndex] EXCEPT !.text = newText]
                 newHistoryForApi ==
                   Append(truncatedHistory(chatMessages, messageIndex), editedMessage)
                 convs == updateActiveConversation(conversations, activeConversationId,
                            [c \in Elements(conversations) |-> [c EXCEPT !.messages = newHistoryForApi,
                                                 !.lastUpdated = t]])
             IN /\ TriggerModelResponse(convs, newHistoryForApi, t)
                /\ now' = t
                /\ lastOp' = Op("edit", TRUE, messageId, messageIndex)
  /\ UNCHANGED <<activeConversationId, maxContextItems, isFetchingSuggestions,
                 apiKey, fetches, reads>>
  /\ UNCHANGED <<inputAttachments, attachmentReads>>

handleRegenerateResponse(messageId) ==
  /\ now < MaxTime
  /\ LET messageIndex == MessageIndex(chatMessages, messageId)
     IN IF messageIndex = 0 \/ chatMessages[messageIndex].sender # "model"
        THEN /\ lastOp' = Op("regenerate", FALSE, messageId, messageIndex)
             /\ UNCHANGED <<conversations, isLoading, initialQuerySuggestions,
                            streams, backendCalls, now>>
        ELSE LET t == now + 1
                 newHistoryForApi == historyBeforeTarget(chatMessages, messageIndex)
                 convs == updateActiveConversation(conversations, activeConversationId,
                            [c \in Elements(conversations) |-> [c EXCEPT !.messages = newHistoryForApi,
                                                 !.lastUpdated = t]])
             IN /\ TriggerModelResponse(convs, newHistoryForApi, t)
                /\ now' = t
                /\ lastOp' = Op("regenerate", TRUE, messageId, messageIndex)
  /\ UNCHANGED <<activeConversationId, maxContextItems, isFetchingSuggestions,
                 apiKey, fetches, reads>>
  /\ UNCHANGED <<inputAttachments, attachmentReads>>

\* ids a handler can be called with: the listed messages and an unknown one
UnknownMessageId == <<"unknown", 0>>
MessageIds == {chatMessages[i].id : i \in 1..Len(chatMessages)}
EditTargets == MessageIds \cup {UnknownMessageId}
\* the regenerate button is rendered on finished model messages with text
RegenerateTargets ==
  {chatMessages[i].id : i \in
     {j \in 1..Len(chatMessages) :
        chatMessages[j].sender = "model" =>
          (~chatMessages[j].isLoading /\ chatMessages[j].text # NoText)}}
  \cup {UnknownMessageId}

KnownFileIds ==
  {activeConversation.files[i].id : i \in 1..Len(activeConversation.files)}
ConversationIds == {conversations[i].id : i \in 1..Len(conversations)}

\* ------------------------------------------------------------ message view
\* MessageItem renders a message as a function of the stored message.  A
\* text is a sequence of characters; an injected marker is a sequence of
\* tokens, longer than one character as the <sup><a ...>[n]</a></sup> markup is

\* String.prototype.slice(n) for 0 <= n
SliceFrom(s, n) == SubSeq(s, (IF Len(s) < n THEN Len(s) ELSE n) + 1, Len(s))

\* the link text of source number n
NumText == <<"[1]", "[2]">>

\* the markup put in for a citation of uri with source number sourceNum
injection(uri, sourceNum) == <<"<sup>", uri, NumText[sourceNum], "</sup>">>

\* a faulty variant of sortedCitations: the citations are taken in the order
\* in which they came
unsortedCitations(citations) ==
  Filter(citations, {c \in Elements(citations) : c.uri # ""})
\* .filter(c => c.startIndex !== undefined && c.endIndex !== undefined && c.uri)
\* the citations of the model always carry both indices
usableCitations(citations) ==
  Filter(citations, {c \in Elements(citations) : c.uri # ""})

\* .sort((a, b) => b.startIndex - a.startIndex), a stable sort: c goes behind
\* every citation that starts at or after it
insertCitation(sorted, c) ==
  LET k == Cardinality({i \in 1..Len(sorted) : sorted[i].startIndex >= c.startIndex})
  IN SubSeq(sorted, 1, k) \o <<c>> \o SubSeq(sorted, k + 1, Len(sorted))

RECURSIVE sortByStartIndex(_)
sortByStartIndex(cs) ==
  IF cs = <<>> THEN <<>>
  ELSE insertCitation(sortByStartIndex(SubSeq(cs, 1, Len(cs) - 1)), cs[Len(cs)])

sortedCitations(citations) == sortByStartIndex(usableCitations(citations))

\* a faulty variant of getSourceNumber: every citation gets the next number
getSourceNumberByPosition(sorted, k) == k
\* getSourceNumber for the k-th citation processed: sources are numbered in
\* the order in which their uri is first processed
getSourceNumber(sorted, k) ==
  LET first == CHOOSE j \in 1..k :
                 /\ sorted[j].uri = sorted[k].uri
                 /\ \A h \in 1..(j - 1) : sorted[h].uri # sorted[k].uri
  IN Cardinality({sorted[j].uri : j \in 1..first})

\* sortedCitations.forEach from the k-th citation on
RECURSIVE injectFrom(_, _, _)
injectFrom(text, sorted, k) ==
  IF k > Len(sorted) THEN text
  ELSE injectFrom(Slice(text, sorted[k].endIndex)
                    \o injection(sorted[k].uri, getSourceNumber(sorted, k))
                    \o SliceFrom(text, sorted[k].endIndex),
                  sorted, k + 1)

\* the text handed to the markdown renderer for a model message with
\* citations and text
processedText(message) ==
  injectFrom(message.text, sortedCitations(message.citations[1]), 1)

\* the branch of renderMessageContent that injects markers
RendersCitations(message) ==
  /\ message.sender = "model"
  /\ message.citations # <<>> /\ message.citations[1] # <<>>
  /\ message.text # <<>>

\* ----------------------------------------------------------- specifications
\* Each specification runs the handlers of one part of the application, with
\* the inputs that part distinguishes.

\* inputs of the parts that do not look at the payloads
OneUrl == {"http://a"}
OneDelta == {<<"H", "e", "l">>}
OnePayload == {[kind |-> "ok", suggestions |-> <<"s1", "s2", "s3", "s4", "s5">>]}
OneResult == {"d"}
RepoFileLists ==
  { <<[name |-> "f1", type |-> "text/plain"]>> }

\* the conversation list, the URL list and the suggestion fetches they start
InitRepo == Init

NextRepo ==
  \/ \E input \in NameInputs : handleNewConversation(input)
  \/ handleDeleteConversation
  \/ \E input \in NameInputs : handleRenameConversation(input)
  \/ \E id \in ConversationIds : setActiveConversationId(id)
  \/ \E m \in SliderChoices : setMaxContextItems(m)
  \/ \E url \in UrlInputs : handleAddUrlClick(url)
  \/ \E url \in UrlInputs : handleRemoveUrl(url)
  \/ \E fl \in RepoFileLists : handleFilesSelected(fl)
  \/ \E r \in reads, d \in OneResult : ReadLoaded(r, d)
  \/ \E id \in KnownFileIds : handleRemoveFile(id)
  \/ \E i \in 1..Len(fetches), p \in OnePayload : FetchReply(i, p)
  \/ \E i \in 1..Len(fetches), e \in ErrorMessages : FetchFailure(i, e)

SpecRepo == InitRepo /\ [][NextRepo]_vars

\* the knowledge base of the conversations: URLs, files and the item limit
InitKb == Init /\ ~apiKey

NextKb ==
  \/ \E input \in NameInputs : handleNewConversation(input)
  \/ \E id \in ConversationIds : setActiveConversationId(id)
  \/ \E m \in SliderChoices : setMaxContextItems(m)
  \/ \E url \in UrlInputs : handleAddUrlClick(url)
  \/ \E url \in UrlInputs : handleRemoveUrl(url)
  \/ \E fl \in FileLists : handleFilesSelected(fl)
  \/ \E r \in reads, d \in OneResult : ReadLoaded(r, d)
  \/ \E r \in reads : ReadError(r)
  \/ \E id \in KnownFileIds : handleRemoveFile(id)

SpecKb == InitKb /\ [][NextKb]_vars

\* sending, editing and regenerating, with the conversation list changing
\* and suggestion fetches running meanwhile
InitChat == Init /\ maxContextItems = 2

NextChat ==
  \/ \E input \in NameInputs : handleNewConversation(input)
  \/ handleDeleteConversation
  \/ \E id \in ConversationIds : setActiveConversationId(id)
  \/ \E url \in OneUrl : handleAddUrlClick(url)
  \/ \E i \in 1..Len(fetches), p \in OnePayload : FetchReply(i, p)
  \/ \E i \in 1..Len(fetches), e \in ErrorMessages : FetchFailure(i, e)
  \/ \E q \in Queries : handleSendMessage(q, <<>>)
  \/ \E id \in EditTargets, text \in EditTexts : handleEditMessage(id, text)
  \/ \E id \in RegenerateTargets : handleRegenerateResponse(id)
  \/ \E i \in 1..Len(streams), d \in OneDelta : StreamChunk(i, d)
  \/ \E i \in 1..Len(streams), c \in CitationChoices : StreamEnd(i, c, <<>>)
  \/ \E i \in 1..Len(streams), e \in ErrorMessages : StreamError(i, e)

SpecChat == InitChat /\ [][NextChat]_vars

\* the chunk loop of one response after another, with every delta and
\* every terminal metadata
InitStream == Init /\ maxContextItems = 2 /\ apiKey

NextStream ==
  \/ now < MaxStreamTime /\ \E input \in NameInputs : handleNewConversation(input)
  \/ \E id \in ConversationIds : setActiveConversationId(id)
  \/ now < MaxStreamTime /\ \E q \in Queries : handleSendMessage(q, <<>>)
  \/ \E i \in 1..Len(streams), d \in Deltas : StreamChunk(i, d)
  \/ \E i \in 1..Len(streams), c \in CitationChoices, u \in UrlContextChoices :
       StreamEnd(i, c, u)
  \/ \E i \in 1..Len(streams), e \in ErrorMessages : StreamError(i, e)

SpecStream == InitStream /\ [][NextStream]_vars

\* filling the URL list of a conversation under a fixed limit
ManyUrls == {"http://a", "http://b", "http://c", "not a url"}

InitUrls == Init

NextUrls ==
  \/ \E input \in NameInputs : handleNewConversation(input)
  \/ \E url \in ManyUrls : handleAddUrlClick(url)
  \/ \E url \in ManyUrls : handleRemoveUrl(url)
  \/ \E i \in 1..Len(fetches), p \in OnePayload : FetchReply(i, p)

SpecUrls == InitUrls /\ [][NextUrls]_vars

\* selecting among the conversations: creating, deleting, renaming,
\* switching and loading the page again
InitSelect == Init

NextSelect ==
  \/ \E input \in NameInputs : handleNewConversation(input)
  \/ handleDeleteConversation
  \/ \E input \in NameInputs : handleRenameConversation(input)
  \/ \E id \in ConversationIds : setActiveConversationId(id)
  \/ Reload
  \/ \E url \in OneUrl : handleAddUrlClick(url)
  \/ \E i \in 1..Len(fetches), p \in OnePayload : FetchReply(i, p)

SpecSelect == InitSelect /\ [][NextSelect]_vars

\* the onSetConversationId prop called with any id, followed by the
\* operations on the active conversation
UnknownConversationId == <<"conv-unknown", 0>>

InitSetter == Init

NextSetter ==
  \/ \E input \in NameInputs : handleNewConversation(input)
  \/ \E id \in ConversationIds \cup {UnknownConversationId} : onSetConversationId(id)
  \/ \E input \in NameInputs : handleRenameConversation(input)
  \/ \E url \in OneUrl : handleAddUrlClick(url)
  \/ \E q \in Queries : handleSendMessage(q, <<>>)
  \/ \E i \in 1..Len(fetches), p \in OnePayload : FetchReply(i, p)
  \/ \E i \in 1..Len(streams), c \in CitationChoices : StreamEnd(i, c, <<>>)

SpecSetter == InitSetter /\ [][NextSetter]_vars

\* files of the knowledge base and attachments of the chat input: reading
\* them, sending them and storing them
AttachmentIds == {inputAttachments[i].id : i \in 1..Len(inputAttachments)}

\* two readable files picked together, or one file of an unsupported type
AttachFileLists ==
  { <<[name |-> "f1", type |-> "text/plain"],
      [name |-> "f2", type |-> "application/pdf"]>>,
    <<[name |-> "f3", type |-> "video/mp4"]>> }
OneQuery == {<<"q">>}

InitAttach == Init /\ apiKey /\ maxContextItems = 2

NextAttach ==
  \/ now < MaxAttachTime /\ \E fl \in AttachFileLists : handleFilesSelected(fl)
  \/ \E r \in reads, d \in ReadResults : ReadLoaded(r, d)
  \/ \E r \in reads : ReadError(r)
  \/ now < MaxAttachTime /\ \E fl \in AttachFileLists : handleFiles(fl)
  \/ \E r \in attachmentReads, d \in ReadResults : AttachmentReadLoaded(r, d)
  \/ \E r \in attachmentReads : AttachmentReadError(r)
  \/ \E id \in AttachmentIds : removeAttachment(id)
  \/ now < MaxAttachTime /\ handleCapture
  \/ now < MaxAttachTime /\ \E q \in OneQuery : handleSend(q)
  \/ now < MaxAttachTime /\ \E q \in OneQuery : recognitionOnEnd(q)
  \/ \E i \in 1..Len(streams) : StreamEnd(i, <<>>, <<>>)

SpecAttach == InitAttach /\ [][NextAttach]_vars

\* the ids given to files and attachments, with selections that hold two
\* files of one name (dropped together from two folders)
SameNameLists ==
  { <<[name |-> "f1", type |-> "text/plain"]>>,
    <<[name |-> "f1", type |-> "text/plain"],
      [name |-> "f1", type |-> "text/plain"]>> }

InitIds == Init /\ maxContextItems = 2 /\ ~apiKey

NextIds ==
  \/ now < MaxAttachTime /\ \E fl \in SameNameLists : handleFilesSelected(fl)
  \/ \E r \in reads, d \in ReadResults : ReadLoaded(r, d)
  \/ \E r \in reads : ReadError(r)
  \/ \E id \in KnownFileIds : handleRemoveFile(id)
  \/ now < MaxAttachTime /\ \E fl \in SameNameLists : handleFiles(fl)
  \/ \E r \in attachmentReads, d \in ReadResults : AttachmentReadLoaded(r, d)
  \/ \E r \in attachmentReads : AttachmentReadError(r)
  \/ \E id \in AttachmentIds : removeAttachment(id)
  \/ now < MaxAttachTime /\ handleCapture

SpecIds == InitIds /\ [][NextIds]_vars

\* the suggestion list: fetches started by the URL list and by switching,
\* every kind of reply, and sends
TwoUrls == {"http://a", "http://b"}

InitSuggest == Init /\ maxContextItems = 2

NextSuggest ==
  \/ \E input \in NameInputs : handleNewConversation(input)
  \/ handleDeleteConversation
  \/ \E id \in ConversationIds : setActiveConversationId(id)
  \/ \E url \in TwoUrls : handleAddUrlClick(url)
  \/ \E i \in 1..Len(fetches), p \in SuggestionPayloads : FetchReply(i, p)
  \/ \E i \in 1..Len(fetches), e \in ErrorMessages : FetchFailure(i, e)
  \/ \E q \in OneQuery : handleSendMessage(q, <<>>)
  \/ \E i \in 1..Len(streams) : StreamEnd(i, <<>>, <<>>)

SpecSuggest == InitSuggest /\ [][NextSuggest]_vars

\* answers that end with two citations over their text
CitedRanges == {<<0, 3>>, <<0, 2>>, <<1, 2>>, <<1, 3>>}
CitationPairs ==
  { << <<[startIndex |-> a[1], endIndex |-> a[2], uri |-> "u1"],
         [startIndex |-> b[1], endIndex |-> b[2], uri |-> "u2"]>> >> :
      a \in CitedRanges, b \in CitedRanges }

InitRender == Init /\ maxContextItems = 2 /\ apiKey

NextRender ==
  \/ now < MaxStreamTime /\ \E q \in OneQuery : handleSendMessage(q, <<>>)
  \/ \E i \in 1..Len(streams), d \in OneDelta : StreamChunk(i, d)
  \/ \E i \in 1..Len(streams), c \in CitationPairs : StreamEnd(i, c, <<>>)

SpecRender == InitRender /\ [][NextRender]_vars

\* one generation after another with the operations a user has meanwhile,
\* under the assumption that the backend ends every stream it has opened
InitHang == Init /\ maxContextItems = 2 /\ apiKey

StreamTerminates ==
  \/ \E i \in 1..Len(streams) : StreamEnd(i, <<>>, <<>>)
  \/ \E i \in 1..Len(streams), e \in ErrorMessages : StreamError(i, e)

NextHang ==
  \/ \E input \in NameInputs : handleNewConversation(input)
  \/ handleDeleteConversation
  \/ \E id \in ConversationIds : setActiveConversationId(id)
  \/ \E q \in Queries : handleSendMessage(q, <<>>)
  \/ \E id \in EditTargets, text \in EditTexts : handleEditMessage(id, text)
  \/ \E id \in RegenerateTargets : handleRegenerateResponse(id)
  \/ \E i \in 1..Len(streams), d \in OneDelta : StreamChunk(i, d)
  \/ StreamTerminates

SpecHang == InitHang /\ [][NextHang]_vars /\ WF_vars(StreamTerminates)

\* files and attachments that are taken away again while they are read
InitRemove == Init /\ maxContextItems = 2 /\ ~apiKey

NextRemove ==
  \/ now < MaxAttachTime /\ \E fl \in AttachFileLists : handleFilesSelected(fl)
  \/ \E r \in reads, d \in ReadResults : ReadLoaded(r, d)
  \/ \E r \in reads : ReadError(r)
  \/ \E id \in KnownFileIds : handleRemoveFile(id)
  \/ now < MaxAttachTime /\ \E fl \in AttachFileLists : handleFiles(fl)
  \/ \E r \in attachmentReads, d \in ReadResults : AttachmentReadLoaded(r, d)
  \/ \E r \in attachmentReads : AttachmentReadError(r)
  \/ \E id \in AttachmentIds : removeAttachment(id)
  \/ \E q \in OneQuery : recognitionOnEnd(q)

SpecRemove == InitRemove /\ [][NextRemove]_vars

\* loading the page again with what the persist effect stored, with the
\* stored active id replaced by one that no conversation has, and with
\* storage that is empty or does not parse
StoredActiveIds == {PersistedActiveId(conversations, activeConversationId),
                    UnknownConversationId}

InitLoad == Init /\ maxContextItems = 2 /\ apiKey

NextLoad ==
  \/ \E input \in NameInputs : handleNewConversation(input)
  \/ \E id \in ConversationIds : setActiveConversationId(id)
  \/ \E input \in NameInputs : handleRenameConversation(input)
  \/ \E fl \in RepoFileLists : handleFilesSelected(fl)
  \/ \E r \in reads, d \in ReadResults : ReadLoaded(r, d)
  \/ \E r \in reads : ReadError(r)
  \/ \E q \in OneQuery : handleSendMessage(q, <<>>)
  \/ \E i \in 1..Len(streams) : StreamEnd(i, <<>>, <<>>)
  \/ \E id \in StoredActiveIds : ReloadFrom(<<Persisted(conversations)>>, id)
  \/ ReloadFrom(<<>>, NoId)

SpecLoad == InitLoad /\ [][NextLoad]_vars

\* answers that end with one citation or with two citations whose ranges do
\* not meet, given in either order, with one uri or with two
RangeA(uri) == [startIndex |-> 0, endIndex |-> 2, uri |-> uri]
RangeB(uri) == [startIndex |-> 3, endIndex |-> 5, uri |-> uri]
RangeC(uri) == [startIndex |-> 2, endIndex |-> 3, uri |-> uri]
DisjointCitations ==
  { << <<[startIndex |-> 0, endIndex |-> 5, uri |-> "u"]>> >>,
    << <<RangeA("u1"), RangeB("u2")>> >>,
    << <<RangeB("u2"), RangeA("u1")>> >>,
    << <<RangeA("u1"), RangeB("u1")>> >>,
    << <<RangeA("u1"), RangeC("u2")>> >>,
    << <<RangeC("u2"), RangeA("u1")>> >> }

InitCite == Init /\ maxContextItems = 2 /\ apiKey

NextCite ==
  \/ now < MaxStreamTime /\ \E q \in OneQuery : handleSendMessage(q, <<>>)
  \/ \E i \in 1..Len(streams), d \in Deltas : StreamChunk(i, d)
  \/ \E i \in 1..Len(streams), c \in DisjointCitations : StreamEnd(i, c, <<>>)

SpecCite == InitCite /\ [][NextCite]_vars

\* ===================================================================== claims
\* the messages of conversation cid in convs, none when it is not listed
MessagesIn(convs, cid) ==
  IF HasConversation(convs, cid)
  THEN convs[FindIndex(convs, {c \in Elements(convs) : c.id = cid})].messages
  ELSE <<>>

\* where a message id occurs in a log
PositionsOf(messages, id) == {k \in 1..Len(messages) : messages[k].id = id}

\* C1: deleting the active conversation while exactly one conversation exists
\* changes nothing, so the number of conversations never drops below one; a
\* conversation disappears only through an accepted delete, one at a time
C1_DeleteKeepsLastConversation ==
  /\ [](Len(conversations) >= 1)
  /\ [][(lastOp'.op = "delete" /\ Len(conversations) = 1)
          => /\ ~lastOp'.ok
             /\ conversations' = conversations
             /\ activeConversationId' = activeConversationId]_vars
  /\ [][Len(conversations') < Len(conversations)
          => /\ lastOp'.op = "delete" /\ lastOp'.ok
             /\ Len(conversations) > 1
             /\ Len(conversations') = Len(conversations) - 1]_vars

\* a delete was invoked on the only conversation and refused
C1_Witness ==
  /\ lastOp.op = "delete" /\ ~lastOp.ok
  /\ Len(conversations) = 1

\* C2: at most one generation stream is in flight at any time, and a send
\* invoked while isLoading or isFetchingSuggestions holds is refused: it adds no
\* message, starts no stream and makes no backend call
C2_SingleStreamSendRefused ==
  /\ [](Len(streams) <= 1)
  /\ [][(lastOp'.op = "send" /\ (isLoading \/ isFetchingSuggestions))
          => /\ ~lastOp'.ok
             /\ conversations' = conversations
             /\ streams' = streams
             /\ backendCalls' = backendCalls
             /\ isLoading' = isLoading]_vars

\* a send with a non-blank query was refused while a stream was in flight
C2_Witness ==
  /\ lastOp.op = "send" /\ ~lastOp.ok /\ lastOp.n > 0
  /\ isLoading /\ Len(streams) = 1

\* the conversations whose log holds a message with this id
HoldersOf(convs, id) ==
  {c \in 1..Len(convs) : PositionsOf(convs[c].messages, id) # {}}

\* an accepted invocation of the reconciler: a stream was started.  Its
\* placeholder is new, is the last message of its conversation and nothing else
\* holds its id
PlaceholderAppended ==
  Len(streams') > Len(streams)
    => LET s == streams'[Len(streams')]
           log == MessagesIn(conversations', s.conv)
       IN /\ Len(streams') = Len(streams) + 1
          /\ HoldersOf(conversations, s.placeholder.id) = {}
          /\ Cardinality(HoldersOf(conversations', s.placeholder.id)) = 1
          /\ PositionsOf(log, s.placeholder.id) = {Len(log)}
          /\ log[Len(log)] = s.placeholder
          /\ s.placeholder.sender = "model"
          /\ s.placeholder.isLoading
          /\ s.placeholder.text = NoText
          /\ s.received = <<>>

\* C3 as stated: the placeholder of every stream in flight stays in its
\* conversation's log at the position it was appended at, and the step that
\* exhausts the stream leaves it there as a model message with isLoading false
C3_FinalizedAlways ==
  [][/\ PlaceholderAppended
     /\ \A i \in 1..Len(streams) :
          LET s == streams[i]
              before == PositionsOf(MessagesIn(conversations, s.conv), s.placeholder.id)
              after == PositionsOf(MessagesIn(conversations', s.conv), s.placeholder.id)
          IN /\ Cardinality(after) = 1
             /\ after = before
             /\ (lastOp'.op = "streamEnd" /\ lastOp'.id = s.placeholder.id)
                  => \A k \in after :
                       LET m == MessagesIn(conversations', s.conv)[k]
                       IN m.sender = "model" /\ ~m.isLoading]_vars

\* C3 (amended): an accepted invocation appends exactly one placeholder; while
\* its stream is in flight the message is never moved, duplicated or re-created,
\* only updated where it is or dropped with its conversation or by a truncation
\* of the log; and the step that exhausts the stream leaves the message, when it
\* is still in the log, a model message with isLoading false and the streamed text
C3_FinalizedWhenPresent ==
  [][/\ PlaceholderAppended
     /\ \A i \in 1..Len(streams) :
          LET s == streams[i]
              before == PositionsOf(MessagesIn(conversations, s.conv), s.placeholder.id)
              after == PositionsOf(MessagesIn(conversations', s.conv), s.placeholder.id)
          IN /\ Cardinality(before) <= 1
             /\ after \subseteq before
             /\ HoldersOf(conversations', s.placeholder.id) \subseteq
                  {c \in 1..Len(conversations') : conversations'[c].id = s.conv}
             /\ (lastOp'.op = "streamEnd" /\ lastOp'.id = s.placeholder.id)
                  => /\ after = before
                     /\ \A k \in after :
                          LET m == MessagesIn(conversations', s.conv)[k]
                          IN /\ m.sender = "model" /\ ~m.isLoading
                             /\ m.text = s.fullText
                     /\ \A j \in 1..Len(streams') :
                          streams'[j].placeholder.id # s.placeholder.id]_vars

\* a stream ran to exhaustion after at least one delta and its message is in
\* the log, finalized
C3_Witness ==
  /\ lastOp.op = "streamEnd"
  /\ \E c \in 1..Len(conversations) :
       \E k \in PositionsOf(conversations[c].messages, lastOp.id) :
         LET m == conversations[c].messages[k]
         IN m.sender = "model" /\ ~m.isLoading /\ m.text # NoText

RECURSIVE Concat(_)
\* the concatenation of a sequence of text deltas, in order
Concat(deltas) ==
  IF deltas = <<>> THEN <<>> ELSE Concat(Slice(deltas, Len(deltas) - 1)) \o deltas[Len(deltas)]

\* s is a prefix of t
IsPrefix(s, t) == Len(s) <= Len(t) /\ SubSeq(t, 1, Len(s)) = s

\* C4: while a response streams the placeholder's text is the concatenation of
\* the deltas received so far, each delta extends the previous text, and the
\* text left at stream exhaustion is the concatenation of all deltas
C4_TextIsConcatenation ==
  /\ [](\A i \in 1..Len(streams) :
          LET s == streams[i]
              log == MessagesIn(conversations, s.conv)
          IN \A k \in PositionsOf(log, s.placeholder.id) :
               log[k].text = Concat(s.received))
  /\ [][\A i \in 1..Len(streams) :
          LET s == streams[i]
              before == MessagesIn(conversations, s.conv)
              after == MessagesIn(conversations', s.conv)
          IN \A k \in PositionsOf(after, s.placeholder.id) :
               /\ k \in PositionsOf(before, s.placeholder.id)
               /\ (lastOp'.op = "chunk" /\ lastOp'.id = s.placeholder.id)
                    => /\ IsPrefix(before[k].text, after[k].text)
                       /\ Len(after[k].text) > Len(before[k].text)
                       /\ after[k].text = Concat(streams'[i].received)
               /\ (lastOp'.op = "streamEnd" /\ lastOp'.id = s.placeholder.id)
                    => after[k].text = Concat(s.received)]_vars

\* the deltas "Hel" and "lo" were received and the stream ended: the message
\* reads "Hello"
C4_Witness ==
  /\ lastOp.op = "streamEnd"
  /\ \E c \in 1..Len(conversations) :
       \E k \in PositionsOf(conversations[c].messages, lastOp.id) :
         conversations[c].messages[k].text = <<"H", "e", "l", "l", "o">>

\* the step is the failure of stream i
StreamFailed(i) ==
  /\ lastOp'.op = "streamError"
  /\ lastOp'.id = streams[i].placeholder.id

\* the failure description put in a message's text
IsErrorText(text) == \E e \in ErrorMessages : text = <<"Error: ", e>>

\* C5 as stated: a failure after the placeholder was appended replaces the
\* placeholder, at its position and under its id, by a system message with the
\* failure description and isLoading false; no further backend call is made
\* and the in-flight flag is cleared
C5_ReplacedAlways ==
  [][\A i \in 1..Len(streams) :
       StreamFailed(i)
         => LET s == streams[i]
                before == MessagesIn(conversations, s.conv)
                after == MessagesIn(conversations', s.conv)
            IN /\ Cardinality(PositionsOf(after, s.placeholder.id)) = 1
               /\ PositionsOf(after, s.placeholder.id) =
                    PositionsOf(before, s.placeholder.id)
               /\ Len(after) = Len(before)
               /\ \A k \in PositionsOf(after, s.placeholder.id) :
                    /\ after[k].sender = "system"
                    /\ ~after[k].isLoading
                    /\ IsErrorText(after[k].text)
               /\ backendCalls' = backendCalls
               /\ ~isLoading']_vars

\* C5 (amended): on a failure the placeholder, when it is still in its
\* conversation's log, is replaced where it is and under its id by a system
\* message with the failure description and isLoading false, every other
\* message being left as it was; when it is no longer in the log no
\* conversation changes; in both cases no further backend call is made, the
\* stream is over and the in-flight flag is cleared; the backend is called only
\* by send, edit and regenerate
C5_ReplacedWhenPresent ==
  [][/\ \A i \in 1..Len(streams) :
       StreamFailed(i)
         => LET s == streams[i]
                before == MessagesIn(conversations, s.conv)
                after == MessagesIn(conversations', s.conv)
                at == PositionsOf(before, s.placeholder.id)
            IN /\ PositionsOf(after, s.placeholder.id) = at
               /\ Len(after) = Len(before)
               /\ \A k \in 1..Len(after) :
                    IF k \in at
                    THEN /\ after[k].sender = "system"
                         /\ ~after[k].isLoading
                         /\ IsErrorText(after[k].text)
                    ELSE after[k] = before[k]
               /\ (at = {} => conversations' = conversations)
               /\ backendCalls' = backendCalls
               /\ streams' = RemoveAt(streams, i)
               /\ ~isLoading'
     /\ backendCalls' # backendCalls
          => lastOp'.op \in {"send", "edit", "regenerate"}]_vars

\* a stream failed and its placeholder now is a system message with the
\* failure description
C5_Witness ==
  /\ lastOp.op = "streamError"
  /\ ~isLoading
  /\ \E c \in 1..Len(conversations) :
       \E k \in PositionsOf(conversations[c].messages, lastOp.id) :
         LET m == conversations[c].messages[k]
         IN m.sender = "system" /\ ~m.isLoading /\ IsErrorText(m.text)

\* the step is an edit or a regenerate of the active conversation
ReplayStep == lastOp'.op \in {"edit", "regenerate"}

\* C6 as stated: an edit or a regenerate whose target is not in the active log
\* or has the wrong sender, or that is invoked while a generation is in flight,
\* leaves every message log as it was
C6_ReplayNoOp ==
  [][(ReplayStep /\ (~lastOp'.ok \/ isLoading))
       => /\ \A c \in 1..Len(conversations) :
               MessagesIn(conversations', conversations[c].id) =
                 conversations[c].messages
          /\ streams' = streams]_vars

\* an accepted replay: the credential is configured and neither a generation
\* nor a suggestion fetch is in flight
ReplayAccepted(op) ==
  /\ lastOp'.op = op /\ lastOp'.ok
  /\ apiKey /\ ~isLoading /\ ~isFetchingSuggestions

\* the log is the first n messages of the old log followed by one new
\* placeholder, which is the one of the stream just started
EndsWithNewPlaceholder(log, n) ==
  /\ Len(log) = n + 1
  /\ Len(streams') = 1
  /\ log[n + 1] = streams'[1].placeholder
  /\ log[n + 1].sender = "model" /\ log[n + 1].isLoading
  /\ log[n + 1].text = NoText
  /\ \A k \in 1..Len(chatMessages) : chatMessages[k].id # log[n + 1].id

\* the message at position i of the old log with its text replaced by one of
\* the edit texts
IsEditedFrom(m, old) ==
  /\ m.text \in EditTexts
  /\ m.id = old.id /\ m.sender = "user"
  /\ [m EXCEPT !.text = old.text] = old

\* C7 as stated: every edit of the user message at position i (counted from 1
\* here) leaves the i-1 messages before it, the edited message under its id at
\* position i and exactly one new model message after it
C7_EditAlways ==
  [][(lastOp'.op = "edit" /\ lastOp'.ok)
       => LET i == lastOp'.n
              log == chatMessages'
          IN /\ Len(log) = i + 1
             /\ SubSeq(log, 1, i - 1) = SubSeq(chatMessages, 1, i - 1)
             /\ IsEditedFrom(log[i], chatMessages[i])
             /\ log[i + 1].sender = "model"]_vars

\* C7 (amended): when the credential is configured and neither a generation
\* nor a suggestion fetch is in flight, the edit leaves the i-1 messages before
\* the target, the edited message under its id at position i and one new model
\* placeholder after it, whatever followed the target, and hands the first i
\* of these to the backend
C7_EditWhenAccepted ==
  [][ReplayAccepted("edit")
       => LET i == lastOp'.n
              log == chatMessages'
          IN /\ chatMessages[i].id = lastOp'.id
             /\ EndsWithNewPlaceholder(log, i)
             /\ SubSeq(log, 1, i - 1) = SubSeq(chatMessages, 1, i - 1)
             /\ IsEditedFrom(log[i], chatMessages[i])
             /\ streams'[1].history = SubSeq(log, 1, i)
             /\ activeConversationId' = activeConversationId]_vars

\* an edit was accepted: the log ends with the edited message and the
\* placeholder of the stream it started
C7_Witness ==
  /\ lastOp.op = "edit" /\ lastOp.ok
  /\ Len(streams) = 1
  /\ streams[1].placeholder.id = <<"model-response", now>>
  /\ Len(chatMessages) = lastOp.n + 1
  /\ chatMessages[lastOp.n].id = lastOp.id
  /\ chatMessages[lastOp.n].text \in EditTexts
  /\ chatMessages[lastOp.n + 1] = streams[1].placeholder

\* C8 as stated: every regenerate of the model message at position i (counted
\* from 1 here) leaves the i-1 messages before it and exactly one new model
\* message, and hands those i-1 messages to the backend
C8_RegenerateAlways ==
  [][(lastOp'.op = "regenerate" /\ lastOp'.ok)
       => LET i == lastOp'.n
              log == chatMessages'
          IN /\ Len(log) = i
             /\ SubSeq(log, 1, i - 1) = SubSeq(chatMessages, 1, i - 1)
             /\ log[i].sender = "model"
             /\ log[i].id # chatMessages[i].id
             /\ Len(streams') = 1
             /\ streams'[Len(streams')].history = SubSeq(chatMessages, 1, i - 1)]_vars

\* C8 (amended): when the credential is configured and neither a generation
\* nor a suggestion fetch is in flight, the regenerate leaves the i-1 messages
\* before the target and one new model placeholder, the target and what
\* followed it being dropped, and hands exactly those i-1 messages to the backend
C8_RegenerateWhenAccepted ==
  [][ReplayAccepted("regenerate")
       => LET i == lastOp'.n
              log == chatMessages'
          IN /\ chatMessages[i].id = lastOp'.id
             /\ chatMessages[i].sender = "model"
             /\ EndsWithNewPlaceholder(log, i - 1)
             /\ SubSeq(log, 1, i - 1) = SubSeq(chatMessages, 1, i - 1)
             /\ streams'[1].history = SubSeq(chatMessages, 1, i - 1)
             /\ activeConversationId' = activeConversationId]_vars

\* a regenerate was accepted: its target is gone and the log ends with the
\* placeholder of the stream it started, which was handed the messages before it
C8_Witness ==
  /\ lastOp.op = "regenerate" /\ lastOp.ok
  /\ Len(streams) = 1
  /\ streams[1].placeholder.id = <<"model-response", now>>
  /\ Len(chatMessages) = lastOp.n
  /\ PositionsOf(chatMessages, lastOp.id) = {}
  /\ chatMessages[lastOp.n] = streams[1].placeholder
  /\ streams[1].history = SubSeq(chatMessages, 1, lastOp.n - 1)

\* the number of context items of a conversation, counted from its two lists
Items(c) == Len(c.urls) + Len(c.files)

\* the conversation with this id in convs
ConversationIn(convs, cid) == convs[FindIndex(convs, {c \in Elements(convs) : c.id = cid})]

\* the step is an addUrl or an addFiles, accepted or not
AddStep == lastOp'.op \in {"addUrl", "addFiles"}

\* C9 as stated: after any addUrl or addFiles, with the setting M that holds
\* then, every conversation has at most M context items
C9_WithinLimitAfterAdd ==
  [][AddStep
       => \A c \in 1..Len(conversations') :
            Items(conversations'[c]) <= maxContextItems']_vars

\* C9 (amended): the limit is checked against the setting in force when the
\* add is applied: an add that changes a conversation leaves it with at most
\* M items, an add invoked on a conversation that already holds M items or
\* more changes nothing, and only a lowering of M leaves a conversation with
\* more than M items
C9_AddNeverExceedsLimit ==
  [][/\ \A c \in 1..Len(conversations') :
          LET after == conversations'[c]
          IN IF HasConversation(conversations, after.id)
             THEN LET before == ConversationIn(conversations, after.id)
                  IN /\ Items(after) > Items(before)
                          => /\ AddStep /\ lastOp'.ok
                             /\ after.id = activeConversationId
                             /\ Items(after) <= maxContextItems'
                     /\ (Items(after) > maxContextItems'
                           /\ Items(before) <= maxContextItems)
                          => /\ lastOp'.op = "setMax"
                             /\ maxContextItems' < maxContextItems
             ELSE Items(after) = 0
     /\ (AddStep /\ Items(activeConversation) >= maxContextItems)
          => /\ ~lastOp'.ok
             /\ conversations' = conversations]_vars

\* an add filled the active conversation up to the limit with a file and a URL
C9_Witness ==
  /\ lastOp.op \in {"addUrl", "addFiles"} /\ lastOp.ok
  /\ Items(activeConversation) = maxContextItems
  /\ contextUrls # <<>> /\ contextFiles # <<>>

\* C10: a conversation's URL list never holds a URL twice, and adding a URL
\* that the active conversation already holds changes no conversation
C10_DuplicateUrlIgnored ==
  /\ [](\A c \in 1..Len(conversations) :
          \A i, j \in 1..Len(conversations[c].urls) :
            conversations[c].urls[i] = conversations[c].urls[j] => i = j)
  /\ [][(lastOp'.op = "addUrl"
           /\ \E i \in 1..Len(contextUrls) : contextUrls[i] = lastOp'.id[1])
          => /\ ~lastOp'.ok
             /\ conversations' = conversations
             /\ fetches' = fetches]_vars

\* a URL the active conversation holds was added again, with room left under
\* the limit, and refused
C10_Witness ==
  /\ lastOp.op = "addUrl" /\ ~lastOp.ok
  /\ \E i \in 1..Len(contextUrls) : contextUrls[i] = lastOp.id[1]
  /\ Items(activeConversation) < maxContextItems

\* the step adds a well-formed URL that the active conversation does not hold
AddsFreshUrl ==
  /\ lastOp'.op = "addUrl"
  /\ IsValidUrl(lastOp'.id[1])
  /\ \A i \in 1..Len(contextUrls) : contextUrls[i] # lastOp'.id[1]

\* C11: under a fixed limit M a fresh valid URL is accepted, and appended at
\* the end of the list, exactly when the conversation holds fewer than M
\* items, and is rejected with the list unchanged when it holds M; so of M+1
\* distinct URLs added to an empty conversation the first M are accepted in
\* order, the last is rejected and the count stays at M
C11_AcceptsUpToLimit ==
  /\ [](\A c \in 1..Len(conversations) : Items(conversations[c]) <= maxContextItems)
  /\ [][AddsFreshUrl
          => IF Items(activeConversation) < maxContextItems
             THEN /\ lastOp'.ok
                  /\ contextUrls' = Append(contextUrls, lastOp'.id[1])
                  /\ Items(activeConversation') = Items(activeConversation) + 1
             ELSE /\ ~lastOp'.ok
                  /\ conversations' = conversations]_vars

\* with M = 2 the URLs a and b were accepted in this order and c was rejected
C11_Witness ==
  /\ maxContextItems = 2
  /\ lastOp = Op("addUrl", FALSE, <<"http://c", 0>>, 0)
  /\ contextUrls = <<"http://a", "http://b">>
  /\ activeConversation.files = <<>>

\* C12: at every moment exactly one conversation of the list has the id held
\* in activeConversationId, whatever sequence of create, delete, rename,
\* select and page-load operations ran
C12_ExactlyOneActive ==
  Cardinality({i \in 1..Len(conversations) :
                 conversations[i].id = activeConversationId}) = 1

C12_Witness ==
  /\ lastOp.op = "load"
  /\ Len(conversations) = 3
  /\ conversations[3].id = activeConversationId
  /\ conversations[3].name # <<"M">>

ActivePosition ==
  CHOOSE i \in 1..Len(conversations) : conversations[i].id = activeConversationId

\* the list s without its element at position i
Without(s, i) ==
  [k \in 1..(Len(s) - 1) |-> IF k < i THEN s[k] ELSE s[k + 1]]

\* C14: a delete that goes through removes the active conversation and
\* nothing else, keeps the others in their order, and selects the
\* conversation that stood just before the deleted one in the old list, or
\* the new first conversation when the deleted one was first
C14_DeleteSelectsPrevious ==
  [][(lastOp'.op = "delete" /\ lastOp'.ok)
       => /\ conversations' = Without(conversations, ActivePosition)
          /\ activeConversationId' =
               IF ActivePosition > 1
               THEN conversations[ActivePosition - 1].id
               ELSE conversations'[1].id]_vars

C14_Witness ==
  /\ lastOp.op = "delete"
  /\ lastOp.ok
  /\ lastOp.n = 3
  /\ Len(conversations) = 2
  /\ activeConversationId = conversations[2].id

\* the conversations are in descending order of lastUpdated
IsDescending(convs) ==
  \A k \in 1..(Len(convs) - 1) : convs[k].lastUpdated >= convs[k + 1].lastUpdated

\* c is a conversation as create makes it: no urls, no files and one
\* message, sent by the system
IsFresh(c) ==
  /\ c.urls = <<>>
  /\ c.files = <<>>
  /\ Len(c.messages) = 1
  /\ c.messages[1].sender = "system"

\* C15: create with a name that trims to empty changes nothing; with any
\* other name it adds exactly one conversation, which has no urls, no files
\* and a single system welcome message and becomes the active one, and the
\* whole list is then in descending order of lastUpdated
C15_CreateAddsActiveSorted ==
  [][lastOp'.op = "create"
       => IF lastOp'.n = 0
          THEN UNCHANGED <<conversations, activeConversationId, maxContextItems,
                           isLoading, isFetchingSuggestions,
                           initialQuerySuggestions, now, streams, fetches, reads>>
          ELSE /\ Len(conversations') = Len(conversations) + 1
               /\ \E j \in 1..Len(conversations') :
                     /\ IsFresh(conversations'[j])
                     /\ conversations'[j].name # <<>>
                     /\ ~HasConversation(conversations, conversations'[j].id)
                     /\ activeConversationId' = conversations'[j].id
                     /\ {conversations'[k] : k \in 1..Len(conversations') \ {j}}
                          = Elements(conversations)
               /\ IsDescending(conversations')]_vars

C15_Witness ==
  /\ lastOp.op = "create"
  /\ lastOp.n > 0
  /\ Len(conversations) = 3
  /\ activeConversationId = conversations[1].id
  /\ IsFresh(conversations[1])
  /\ conversations[2].lastUpdated > conversations[3].lastUpdated
  /\ conversations[2].id = <<"conv", 0>>
  /\ conversations[3].id = <<"conv", 1>>

\* C16: a suggestion fetch and a generation are never in flight together,
\* and a suggestion fetch that replies while a generation is in flight does
\* not write the suggestion list
C16_FetchExcludesGeneration ==
  /\ [](~(streams # <<>> /\ fetches # <<>>))
  /\ [](~(isLoading /\ isFetchingSuggestions))
  /\ [][(lastOp'.op = "fetchReply" /\ streams # <<>>)
         => initialQuerySuggestions' = initialQuerySuggestions]_vars

\* C17: when a suggestion fetch replies while a fetch that was started after
\* it is still outstanding, the reply does not write the suggestion list
C17_ReplacedFetchNeverWrites ==
  [][(lastOp'.op = "fetchReply" /\ lastOp'.n < Len(fetches))
       => initialQuerySuggestions' = initialQuerySuggestions]_vars

\* the ids of a list of attachments and the entry with a given id
IdsOf(atts) == {atts[i].id : i \in 1..Len(atts)}
EntryOf(atts, id) == atts[CHOOSE i \in 1..Len(atts) : atts[i].id = id]

\* from one value of a list to the next, an attachment that is loading stays
\* as it is or becomes loaded with data or failed with a message, and any
\* other attachment keeps its status and data
SettlesOnce(old, new) ==
  \A id \in IdsOf(old) \cap IdsOf(new) :
    LET a == EntryOf(old, id)
        b == EntryOf(new, id)
    IN IF a.status = "loading"
       THEN \/ b = a
            \/ b.status = "loaded" /\ b.data # ""
            \/ b.status = "error" /\ b.errorMessage # ""
       ELSE b.status = a.status /\ b.data = a.data

\* C18: an attachment leaves the loading status once, for loaded with its
\* data set or for error with its message set, and keeps status and data
\* from then on, in the knowledge-base files of every conversation and in
\* the attachments of the chat input
C18_SettlesOnceWithData ==
  [][/\ SettlesOnce(inputAttachments, inputAttachments')
     /\ \A c \in 1..Len(conversations), d \in 1..Len(conversations') :
          conversations[c].id = conversations'[d].id
            => SettlesOnce(conversations[c].files, conversations'[d].files)]_vars

\* the files and message attachments of a stored conversation list
StoredAttachments(stored) ==
  UNION { Elements(stored[c].files) \cup
          UNION { Elements(stored[c].messages[k].attachments) :
                    k \in 1..Len(stored[c].messages) } :
            c \in 1..Len(stored) }

\* C19: every context file and every message attachment in the request of a
\* generation, and every file and attachment in what is stored, has status
\* loaded; none is loading or failed
C19_OnlyLoadedLeaves ==
  /\ \A i \in 1..Len(streams) :
        \A a \in RequestFiles(streams[i]) \cup RequestAttachments(streams[i]) :
          a.status = "loaded"
  /\ \A a \in StoredAttachments(Persisted(conversations)) : a.status = "loaded"

C19_Witness ==
  /\ Len(streams) = 1
  /\ Len(streams[1].files) = 1
  /\ Len(activeConversation.files) = 2
  /\ \E i \in 1..2 : activeConversation.files[i].status = "loading"
  /\ StoredAttachments(Persisted(conversations)) = Elements(streams[1].files)

\* new holds the entries of old in the same places, and differs from it at
\* most in the entries with the given id
OnlyIdChanged(old, new, id) ==
  /\ Len(new) = Len(old)
  /\ \A k \in 1..Len(old) :
        /\ new[k].id = old[k].id
        /\ old[k].id # id => new[k] = old[k]

\* the outcomes of a read: it delivers data, delivers nothing, or fails
ReadOutcomes == {"d", "", "failed"}

\* the knowledge-base files after the read r ended with outcome o
FilesAfter(convs, r, o) ==
  handleUpdateFile(convs, r.conv,
                   IF o = "failed" THEN FileFailed(r.placeholder)
                   ELSE FileLoaded(r.placeholder, o))

\* the chat input's attachments after the read r ended with outcome o
AttachmentsAfter(atts, r, o) ==
  IF o = "failed"
  THEN AttachmentFailed(atts, r.placeholder.id, "Failed to read file")
  ELSE AttachmentOnLoad(atts, r.placeholder.id, o)

C21_AttachmentIdsUnique ==
  /\ \A c \in 1..Len(conversations) :
        Cardinality(IdsOf(conversations[c].files)) = Len(conversations[c].files)
  /\ Cardinality(IdsOf(inputAttachments)) = Len(inputAttachments)
  /\ \A c \in 1..Len(conversations) :
        /\ IdsOf(conversations[c].files) \cap IdsOf(inputAttachments) = {}
        /\ \A d \in 1..Len(conversations) :
             c # d => IdsOf(conversations[c].files) \cap IdsOf(conversations[d].files) = {}

\* a message of some conversation was sent by the model
SomeModelMessage ==
  \E c \in 1..Len(conversations) : \E k \in 1..Len(conversations[c].messages) :
    conversations[c].messages[k].sender = "model"

\* C22: without a backend credential the in-flight flag is never set, no
\* backend call is made and no model message exists, and every send, edit
\* or regenerate that reaches the reconciler appends one system message
\* with the configuration error at the end of the active conversation
C22_NoCredentialReportsError ==
  /\ [](~apiKey => /\ ~isLoading
                    /\ backendCalls = 0
                    /\ streams = <<>>
                    /\ ~SomeModelMessage)
  /\ [][(~apiKey /\ lastOp'.op \in {"send", "edit", "regenerate"} /\ lastOp'.ok)
         => /\ chatMessages' # <<>>
            /\ chatMessages'[Len(chatMessages')].sender = "system"
            /\ chatMessages'[Len(chatMessages')].text = ApiKeyErrorText
            /\ chatMessages'[Len(chatMessages')].id \notin MessageIds
            /\ Len(chatMessages') =
                 (IF lastOp'.op = "send" THEN Len(chatMessages) + 1
                  ELSE IF lastOp'.op = "edit" THEN lastOp'.n
                  ELSE lastOp'.n - 1) + 1]_vars

C22_Witness ==
  /\ ~apiKey
  /\ lastOp.op = "edit"
  /\ lastOp.ok
  /\ chatMessages[Len(chatMessages)].text = ApiKeyErrorText
  /\ Len(chatMessages) = 3

\* C23: a rename, URL addition, URL removal, file addition or file removal
\* that goes through leaves the conversation it changed with lastUpdated
\* equal to the clock value of that step
C23_ChangeSetsLastUpdated ==
  [][(lastOp'.op \in {"rename", "addUrl", "removeUrl", "addFiles", "removeFile"}
        /\ lastOp'.ok)
       => \A c \in 1..Len(conversations) :
            conversations'[c] # conversations[c]
              => /\ now' = now + 1
                 /\ conversations'[c].lastUpdated = now']_vars

\* the stream whose chunk, end or failure is the step being taken
SteppedStream == streams[lastOp'.n]

\* what the step writes into the message of the stepped stream
LandedIn(msg) ==
  IF lastOp'.op = "chunk"
  THEN msg.text = streams'[lastOp'.n].fullText /\ msg.isLoading
  ELSE IF lastOp'.op = "streamEnd"
  THEN msg.text = SteppedStream.fullText /\ ~msg.isLoading /\ msg.sender = "model"
  ELSE ~msg.isLoading /\ msg.sender = "system"

\* C24: a chunk, the finalization or the failure of a generation writes to
\* the message with the placeholder id in the conversation where the send
\* started, whichever conversation is active by then; every other message
\* of that conversation and every other conversation stay as they were
C24_ResponseLandsInOrigin ==
  [][lastOp'.op \in {"chunk", "streamEnd", "streamError"}
       => /\ Len(conversations') = Len(conversations)
          /\ \E c \in 1..Len(conversations) :
                conversations[c].id = SteppedStream.conv
          /\ \A c \in 1..Len(conversations) :
                IF conversations[c].id # SteppedStream.conv
                THEN conversations'[c] = conversations[c]
                ELSE /\ Len(conversations'[c].messages) = Len(conversations[c].messages)
                     /\ \E k \in 1..Len(conversations[c].messages) :
                           conversations[c].messages[k].id = SteppedStream.placeholder.id
                     /\ \A k \in 1..Len(conversations[c].messages) :
                           IF conversations[c].messages[k].id = SteppedStream.placeholder.id
                           THEN /\ conversations'[c].messages[k].id = SteppedStream.placeholder.id
                                /\ LandedIn(conversations'[c].messages[k])
                           ELSE conversations'[c].messages[k] = conversations[c].messages[k]]_vars

C24_Witness ==
  /\ lastOp.op = "chunk"
  /\ Len(streams) = 1
  /\ streams[1].conv # activeConversationId
  /\ Len(streams[1].received) = 2
  /\ \E c \in 1..Len(conversations) :
        /\ conversations[c].id = streams[1].conv
        /\ \E k \in 1..Len(conversations[c].messages) :
              /\ conversations[c].messages[k].id = streams[1].placeholder.id
              /\ conversations[c].messages[k].text = streams[1].fullText

\* C25: a send that is accepted leaves the suggestion list empty in the same
\* step, whatever the list held before
C25_SendClearsSuggestions ==
  [][lastOp'.op = "send" /\ lastOp'.ok => initialQuerySuggestions' = <<>>]_vars

\* a send accepted in a conversation with URLs, after the suggestion fetch
\* for them was answered
C25_Witness ==
  /\ lastOp.op = "send" /\ lastOp.ok
  /\ apiKey /\ Len(contextUrls) > 0
  /\ fetches = <<>> /\ Len(streams) = 1
  /\ initialQuerySuggestions = <<>>

\* the reply of the step carries a text that does not parse or that lacks a
\* suggestions array
UnusableReply ==
  lastOp'.op = "fetchReply" /\ lastOp'.id[1] \in {"garbage", "noarray"}

\* an unusable reply ends with an empty list, no message and the flag cleared
UnusableReplyEmptiesList ==
  [][UnusableReply =>
       /\ initialQuerySuggestions' = <<>>
       /\ conversations' = conversations
       /\ ~isFetchingSuggestions']_vars

\* the conversation at position c gains one message at its end, a system
\* message that reports the failed fetch, and is otherwise as before
GainsFetchError(c) ==
  LET old == conversations[c].messages
      new == conversations'[c].messages
  IN /\ Len(new) = Len(old) + 1
     /\ SubSeq(new, 1, Len(old)) = old
     /\ new[Len(new)].sender = "system"
     /\ new[Len(new)].text[1] = "Error fetching suggestions: "
     /\ ~new[Len(new)].isLoading
     /\ conversations' = [conversations EXCEPT ![c].messages = new]

C27_AtMostFourSuggestions == Len(initialQuerySuggestions) <= SuggestionCap

\* a reply with five suggestions was stored as four
C27_Witness ==
  /\ lastOp.op = "fetchReply" /\ lastOp.id = <<"ok", 5>>
  /\ initialQuerySuggestions = <<"s1", "s2", "s3", "s4">>

\* the tokens of which markers are made
MarkerTokens ==
  {"<sup>", "</sup>", "u", "u1", "u2"} \cup {NumText[n] : n \in 1..Len(NumText)}

\* in the rendered text the marker of citation c stands in one piece right
\* after the first c.endIndex characters of the original text
MarkerFollows(rendered, c) ==
  \E p \in 0..(Len(rendered) - 4) :
    /\ rendered[p + 1] = "<sup>" /\ rendered[p + 2] = c.uri
    /\ rendered[p + 3] \in {NumText[n] : n \in 1..Len(NumText)}
    /\ rendered[p + 4] = "</sup>"
    /\ Cardinality({k \in 1..p : rendered[k] \notin MarkerTokens}) = c.endIndex

\* no insertion moves the place at which a later insertion is made: every
\* citation processed later ends at or before the ones processed earlier
LaterInsertionsUnshifted(sorted) ==
  \A i \in 1..Len(sorted) : \A j \in (i + 1)..Len(sorted) :
    sorted[j].endIndex <= sorted[i].endIndex

\* the finished model messages that are rendered with citations whose ranges
\* lie within the text
CitedMessages ==
  {m \in UNION {Elements(conversations[c].messages) : c \in 1..Len(conversations)} :
     /\ RendersCitations(m) /\ ~m.isLoading
     /\ \A c \in Elements(m.citations[1]) :
          c.startIndex <= c.endIndex /\ c.endIndex <= Len(m.text)}

\* C28: for a message with two citations over its final text, nested or
\* overlapping, the rendered text holds the marker of each citation right
\* after the first endIndex characters of the original text, and no insertion
\* shifts the place of an insertion that is still to be made
C28_MarkersFollowTheirRanges ==
  \A m \in CitedMessages :
    /\ \A c \in Elements(m.citations[1]) : MarkerFollows(processedText(m), c)
    /\ LaterInsertionsUnshifted(sortedCitations(m.citations[1]))

\* the places (conversation, position) of the messages that are loading
LoadingMessages ==
  {p \in UNION {{<<c, k>> : k \in 1..Len(conversations[c].messages)} :
                  c \in 1..Len(conversations)} :
     conversations[p[1]].messages[p[2]].isLoading}

\* C29: at most one message of all conversations is loading, and none is
\* while the in-flight flag is off
C29_AtMostOneLoadingMessage ==
  /\ Cardinality(LoadingMessages) <= 1
  /\ ~isLoading => LoadingMessages = {}

\* a response is in flight in a conversation that is no longer the active
\* one, after an earlier response of that conversation failed
C29_Witness ==
  /\ isLoading /\ Cardinality(LoadingMessages) = 1
  /\ \E p \in LoadingMessages :
       /\ conversations[p[1]].id # activeConversationId
       /\ \E k \in 1..(p[2] - 1) :
            conversations[p[1]].messages[k].text = <<"Error: ", "quota">>

\* the messages of the conversation with this id that carry metadata
WithMetadata(convs, cid) ==
  {m \in Elements(MessagesIn(convs, cid)) : m.citations # <<>> \/ m.urlContext # <<>>}

\* C30: a message that is loading carries neither citations nor URL-retrieval
\* metadata; metadata comes into a log only in the step that ends a stream,
\* and only on that stream's placeholder; and after that step the
\* placeholder carries exactly the citations and the URL-retrieval metadata
\* the stream delivered, each of which may be absent
C30_MetadataOnlyAtFinalization ==
  /\ [](\A c \in 1..Len(conversations) : \A k \in 1..Len(conversations[c].messages) :
          conversations[c].messages[k].isLoading =>
            /\ conversations[c].messages[k].citations = <<>>
            /\ conversations[c].messages[k].urlContext = <<>>)
  /\ [][\A cid \in {conversations'[c].id : c \in 1..Len(conversations')} :
          \A m \in WithMetadata(conversations', cid) \ WithMetadata(conversations, cid) :
            lastOp'.op = "streamEnd" /\ m.id = lastOp'.id]_vars
  /\ [][lastOp'.op = "streamEnd" =>
          \A m \in Elements(MessagesIn(conversations', SteppedStream.conv)) :
            m.id = lastOp'.id =>
              /\ ~m.isLoading
              /\ m.citations = lastOp'.delivered[1]
              /\ m.urlContext = lastOp'.delivered[2]]_vars

\* a response was finalized with citations and without URL-retrieval
\* metadata, after two text chunks
C30_Witness ==
  /\ lastOp.op = "streamEnd"
  /\ lastOp.delivered[1] # <<>> /\ lastOp.delivered[2] = <<>>
  /\ \E c \in 1..Len(conversations) : \E k \in 1..Len(conversations[c].messages) :
       LET m == conversations[c].messages[k]
       IN /\ m.id = lastOp.id /\ ~m.isLoading
          /\ m.citations = lastOp.delivered[1] /\ m.urlContext = <<>>
          /\ Len(m.text) = 5

\* the stream of the step belongs to a conversation that was deleted
OriginDeleted == ~HasConversation(conversations, SteppedStream.conv)

\* C31: when the conversation in which a generation started was deleted
\* while the stream is in flight, every later chunk, the finalization and the
\* error replacement leave all conversations as they are, and the end of the
\* stream still clears the in-flight flag
C31_DeletedOriginChangesNothing ==
  [][lastOp'.op \in {"chunk", "streamEnd", "streamError"} /\ OriginDeleted
       => /\ conversations' = conversations
          /\ lastOp'.op = "chunk" => isLoading' = isLoading
          /\ lastOp'.op \in {"streamEnd", "streamError"} =>
               ~isLoading' /\ streams' = <<>>]_vars

\* a stream has ended after its conversation was deleted and a chunk had
\* arrived: no log holds its placeholder and the flag is off
C31_Witness ==
  /\ lastOp.op \in {"streamEnd", "streamError"}
  /\ backendCalls = 1
  /\ HoldersOf(conversations, lastOp.id) = {}
  /\ \A c \in 1..Len(conversations) : conversations[c].id # <<"conv", 0>>
  /\ ~isLoading /\ streams = <<>>

\* C32: the in-flight flag is on exactly while a stream has not ended: it
\* is turned off only by the step that ends the stream (exhaustion or error),
\* no other operation turns it off, every send is refused while it is on, a
\* send with text is refused only while a flag is on, and when the backend
\* ends its streams the flag is eventually off again
C32_FlagFollowsStream ==
  /\ [](isLoading <=> streams # <<>>)
  /\ [](Len(streams) <= 1)
  /\ [][isLoading /\ ~isLoading' => lastOp'.op \in {"streamEnd", "streamError"}]_vars
  /\ [][lastOp'.op = "send" /\ isLoading => ~lastOp'.ok /\ isLoading']_vars
  /\ [][lastOp'.op = "send" /\ ~lastOp'.ok =>
          isLoading \/ isFetchingSuggestions \/ lastOp'.n = 0]_vars
  /\ (isLoading ~> ~isLoading)

\* a send was accepted after the stream of an earlier send had ended
C32_Witness ==
  /\ lastOp.op = "send" /\ lastOp.ok
  /\ backendCalls = 2 /\ isLoading
  /\ \E k \in 1..Len(chatMessages) :
       chatMessages[k].sender = "model" /\ ~chatMessages[k].isLoading

\* every message of old that is not loading stands unchanged at the same
\* place in new
FinalizedKept(old, new) ==
  \A k \in 1..Len(old) :
    ~old[k].isLoading => k <= Len(new) /\ new[k] = old[k]

\* new is old cut off behind position keep, followed by at most one message
TruncatedAndAppended(old, new, keep) ==
  /\ Len(new) \in {keep, keep + 1}
  /\ \A k \in 1..keep : new[k] = old[k]

\* C33: a message that is not loading keeps its id, sender, text and metadata
\* and its place for as long as it is in the log.  Only an edit or a
\* regenerate that finds its target alters the finished part of a log, and
\* only of the active one: the log is cut off at the target and at most one
\* message is appended; an edit keeps the target with its id and sender and
\* the new text
C33_FinalizedMessagesAreImmutable ==
  /\ [][~(lastOp'.op \in {"edit", "regenerate"} /\ lastOp'.ok) =>
          \A cid \in {conversations'[c].id : c \in 1..Len(conversations')} :
            FinalizedKept(MessagesIn(conversations, cid), MessagesIn(conversations', cid))]_vars
  /\ [][lastOp'.op \in {"edit", "regenerate"} /\ lastOp'.ok =>
          /\ \A cid \in {conversations'[c].id : c \in 1..Len(conversations')} \ {activeConversationId} :
               MessagesIn(conversations', cid) = MessagesIn(conversations, cid)
          /\ TruncatedAndAppended(chatMessages, chatMessages', lastOp'.n - 1)
               \/ /\ lastOp'.op = "edit"
                  /\ TruncatedAndAppended(
                       [chatMessages EXCEPT ![lastOp'.n].text = chatMessages'[lastOp'.n].text],
                       chatMessages', lastOp'.n)]_vars

\* a second answer of a conversation was finished behind a first one that
\* is still in the log with its text
C33_Witness ==
  /\ lastOp.op = "streamEnd" /\ backendCalls = 2
  /\ \E k \in 1..Len(chatMessages) : \E j \in (k + 1)..Len(chatMessages) :
       /\ chatMessages[k].sender = "model" /\ ~chatMessages[k].isLoading
       /\ chatMessages[k].text # <<>>
       /\ chatMessages[j].id = lastOp.id /\ ~chatMessages[j].isLoading

\* C34: the fetching flag is on in every state in which a suggestion fetch
\* is outstanding, also when a second fetch was started before the first
\* one completed
C34_FlagCoversEveryFetch == fetches # <<>> => isFetchingSuggestions

\* the file lists of all conversations, in the order of the conversations
FileLogs(convs) == [c \in 1..Len(convs) |-> convs[c].files]
FileIdsOf(convs) == [c \in 1..Len(convs) |-> IdsOf(convs[c].files)]

\* C35: the completion of a read, with data or with an error, never puts a
\* file or an attachment into a list.  When the file was removed from its
\* conversation while it was read, the completion leaves every file list as
\* it is, and when the attachment was removed from the chat input or cleared
\* by a send, the completion leaves the chat input as it is; an id that has
\* left a list comes back in no step
C35_RemovedNeverReappears ==
  /\ [][lastOp'.op \in {"readLoaded", "readError"} =>
          \A r \in reads \ reads' :
            /\ FileIdsOf(conversations') = FileIdsOf(conversations)
            /\ r.placeholder.id \notin IdsOf(ConversationIn(conversations, r.conv).files)
                 => FileLogs(conversations') = FileLogs(conversations)]_vars
  /\ [][lastOp'.op \in {"attachmentLoaded", "attachmentError"} =>
          /\ IdsOf(inputAttachments') = IdsOf(inputAttachments)
          /\ lastOp'.id \notin IdsOf(inputAttachments)
               => inputAttachments' = inputAttachments]_vars
  /\ [][/\ lastOp'.op # "addFiles" =>
             \A c \in 1..Len(conversations) :
               IdsOf(conversations'[c].files) \subseteq IdsOf(conversations[c].files)
         /\ lastOp'.op # "handleFiles" =>
             IdsOf(inputAttachments') \subseteq IdsOf(inputAttachments)]_vars

\* the read of a file completed after the file and the one picked with it
\* were removed, and the read of an attachment after dictation had sent and
\* cleared the chat input
C35_Witness ==
  /\ lastOp.op \in {"readLoaded", "attachmentLoaded"}
  /\ reads = {} /\ attachmentReads = {}
  /\ activeConversation.files = <<>> /\ inputAttachments = <<>>
  /\ Len(chatMessages) > 1

\* a conversation as the claim expects it after saving and loading:
\* attachments that are not loaded are gone and no message is loading
LoadedOnly(atts) == Filter(atts, {a \in Elements(atts) : a.status = "loaded"})
AfterRoundTrip(conv) ==
  [conv EXCEPT
     !.files = LoadedOnly(@),
     !.messages = [k \in 1..Len(@) |->
                     [@[k] EXCEPT !.isLoading = FALSE,
                                  !.attachments = LoadedOnly(@)]]]

\* the page was loaded with what the persist effect had stored for the
\* state before
LoadsWhatWasSaved ==
  lastOp'.op = "load" /\ lastOp'.ok /\ lastOp'.id = activeConversationId

\* the loaded state has a conversation and its active id is one of its
\* conversations', whatever the storage held
LoadGivesActiveConversation ==
  [][lastOp'.op = "load" =>
       /\ Len(conversations') >= 1
       /\ HasConversation(conversations', activeConversationId')]_vars

\* C36: saving the state and loading it again gives the same conversations
\* and the same active id, except that attachments that are not loaded are
\* gone and no message is loading; whatever the storage holds, the loaded
\* state has at least one conversation and an active id that is one of its
\* conversations'
C36_LoadRestoresWhatWasSaved ==
  /\ LoadGivesActiveConversation
  /\ [][LoadsWhatWasSaved =>
          /\ Len(conversations') = Len(conversations)
          /\ Elements(conversations') = {AfterRoundTrip(c) : c \in Elements(conversations)}
          /\ activeConversationId' = activeConversationId]_vars

\* the finished model messages that are rendered with citations whose
\* ranges are not empty, lie within the text and do not meet each other
DisjointlyCitedMessages ==
  {m \in UNION {Elements(conversations[c].messages) : c \in 1..Len(conversations)} :
     /\ RendersCitations(m) /\ ~m.isLoading
     /\ \A i \in 1..Len(m.citations[1]) :
          /\ m.citations[1][i].startIndex < m.citations[1][i].endIndex
          /\ m.citations[1][i].endIndex <= Len(m.text)
          /\ \A j \in 1..Len(m.citations[1]) :
               i # j => \/ m.citations[1][i].endIndex <= m.citations[1][j].startIndex
                        \/ m.citations[1][j].endIndex <= m.citations[1][i].startIndex}

\* the characters of a rendered text that belong to no marker
WithoutMarkers(rendered) ==
  Filter(rendered, Elements(rendered) \ MarkerTokens)

\* C37: for a finished model message with text T and citations with a uri
\* whose ranges do not meet and end within T, one citation included, the
\* rendered text holds as many markers as there are citations, the marker of
\* each citation right after the first endIndex characters of T, and the
\* characters of T unchanged and in order around the markers
C37_DisjointCitationsRenderInPlace ==
  \A m \in DisjointlyCitedMessages :
    LET rendered == processedText(m)
    IN /\ WithoutMarkers(rendered) = m.text
       /\ Cardinality({p \in 1..Len(rendered) : rendered[p] = "<sup>"})
            = Len(m.citations[1])
       /\ \A c \in Elements(m.citations[1]) : MarkerFollows(rendered, c)

\* the answer Hello was finished with the citation 0..5 of u
C37_Witness ==
  \E m \in DisjointlyCitedMessages :
    /\ m.text = <<"H", "e", "l", "l", "o">>
    /\ m.citations[1] = <<[startIndex |-> 0, endIndex |-> 5, uri |-> "u"]>>
    /\ processedText(m) = m.text \o <<"<sup>", "u", "[1]", "</sup>">>

\* the number tokens that the rendered text shows for the citations of uri:
\* the token that follows the uri inside a marker
NumbersShownFor(rendered, uri) ==
  {rendered[p + 1] : p \in {q \in 1..(Len(rendered) - 1) :
                               rendered[q] = uri /\ q > 1 /\ rendered[q - 1] = "<sup>"}}

\* the citations of m that start latest
StartingLast(m) ==
  {c \in Elements(m.citations[1]) :
     \A d \in Elements(m.citations[1]) : d.startIndex <= c.startIndex}

\* C38: source numbers follow the order of processing, descending
\* startIndex: the citation that starts last shows number 1, the citations
\* of one uri all show one number, and k different uris show exactly the
\* numbers 1..k
C38_SourceNumbersInProcessingOrder ==
  \A m \in DisjointlyCitedMessages :
    LET rendered == processedText(m)
        uris == {c.uri : c \in Elements(m.citations[1])}
    IN /\ \A c \in StartingLast(m) : NumbersShownFor(rendered, c.uri) = {"[1]"}
       /\ \A u \in uris : Cardinality(NumbersShownFor(rendered, u)) = 1
       /\ UNION {NumbersShownFor(rendered, u) : u \in uris}
            = {NumText[n] : n \in 1..Cardinality(uris)}

\* an answer with two sources, given in ascending order: the second one
\* starts last and shows number 1, the first shows number 2
C38_Witness ==
  \E m \in DisjointlyCitedMessages :
    /\ m.citations[1] = <<RangeA("u1"), RangeB("u2")>>
    /\ NumbersShownFor(processedText(m), "u2") = {"[1]"}
    /\ NumbersShownFor(processedText(m), "u1") = {"[2]"}

====
